---- MODULE Spec2Model ----
(***************************************************************************)
(* Two-tier issue cache of discord-github-bot: CacheService (cache.ts)     *)
(* over a node-cache fast cache and the SQLite `issues` table.             *)
(*                                                                         *)
(* A cache call is a task that runs from one await to the next: the        *)
(* synchronous fast-cache part, then the SQLite statement, then the        *)
(* continuation after the statement.  Tasks interleave at these points.    *)
(***************************************************************************)
EXTENDS Integers, Sequences, FiniteSets, TLC

\* ------------------------------------------------------------------ bounds
\* The clock (seconds) runs from 1 to MaxTime.
MaxTime == 4
\* Seconds in one UTC day, scaled down.
DayLen == 4
\* The default TTL the service is constructed with, scaled down.
DefaultTTL == 2
\* Calls started over one run (keeps the statistics counters finite).
MaxCalls == 3

\* The tasks (request handlers) that can be inside the cache at once.
Tasks == {1, 2}

\* ------------------------------------------------------------- JS values
Null == "<null>"
NaN == -1

\* A string is the sequence of its ':'-free segments, so that joining with
\* ':' is concatenation and split(':') is the sequence itself.
Owners == {<<"octo">>}
Repos == {<<"repo">>}
Numbers == {1}

\* `${number}` in a template literal.
NumberToString(n) == ToString(n)

\* parseInt(s, 10) of one segment.
ParseInt(s) ==
  IF \E n \in 0..9 : ToString(n) = s
    THEN CHOOSE n \in 0..9 : ToString(n) = s
    ELSE NaN

\* CACHE_KEYS.GITHUB_ISSUE(owner, repo, number), as its split(':') parts.
GITHUB_ISSUE(owner, repo, number) ==
  <<"github", "issue">> \o owner \o repo \o <<NumberToString(number)>>

IssueKeys == {GITHUB_ISSUE(o, r, n) : o \in Owners, r \in Repos, n \in Numbers}
\* The keys the callers use: the issue keys (getIssue / setIssue).
Keys == IssueKeys

\* key.startsWith('github:issue:')
StartsWithIssuePrefix(key) ==
  Len(key) >= 3 /\ key[1] = "github" /\ key[2] = "issue"

\* ----------------------------------------------------------- GitHubIssue
OctoRepo == [owner |-> <<"octo">>, name |-> <<"repo">>]

MkIssue(id, n, title, body, draft, labels, comments, repository) ==
  [id |-> id, number |-> n, title |-> title, body |-> body, state |-> "open",
   draft |-> draft,
   user |-> [login |-> "alice", avatar_url |-> "a.png"],
   labels |-> labels, created_at |-> "c", updated_at |-> "u",
   comments |-> comments, html_url |-> "url", repository |-> repository]

\* The records the callers pass to set: what GitHubService.getIssue builds.
IssuesFor(n) ==
  {MkIssue(n, n, "Bug", Null, "false", <<>>, 0, OctoRepo),
   MkIssue(n, n, "Fix", "text", "true",
           <<[name |-> "bug", color |-> "red"]>>, 2, OctoRepo)}

NoIssue == MkIssue(0, 0, "", Null, "false", <<>>, 0, [owner |-> <<>>, name |-> <<>>])

ValuesFor(key) ==
  IF StartsWithIssuePrefix(key)
    THEN IssuesFor(ParseInt(key[Len(key)]))
    ELSE IssuesFor(1)

\* The attributes of a cached issue (spec: CachedIssue), without the draft
\* flag and the derived repository object.
CachedIssueAttrs(i) ==
  [number |-> i.number, title |-> i.title, body |-> i.body, state |-> i.state,
   user |-> i.user, labels |-> i.labels, comments |-> i.comments,
   html_url |-> i.html_url, created_at |-> i.created_at,
   updated_at |-> i.updated_at]

\* ------------------------------------------------------------ time, text
\* new Date(ms).toISOString(): 'YYYY-MM-DDTHH:MM:SS.sssZ'.
ToISOString(t) == [date |-> t \div DayLen, sep |-> "T", time |-> t % DayLen]

\* SQLite datetime("now") / CURRENT_TIMESTAMP: 'YYYY-MM-DD HH:MM:SS'.
SqlDatetime(t) == [date |-> t \div DayLen, sep |-> " ", time |-> t % DayLen]

CharCode(c) == IF c = "T" THEN 84 ELSE 32

\* SQLite's comparison of two TEXT values: byte by byte.
TextLess(a, b) ==
  \/ a.date < b.date
  \/ /\ a.date = b.date
     /\ \/ CharCode(a.sep) < CharCode(b.sep)
        \/ a.sep = b.sep /\ a.time < b.time

\* WHERE expires_at > datetime("now")
SqlLive(row, t) == TextLess(SqlDatetime(t), row.expires_at)

\* WHERE expires_at < datetime("now") (cleanup, trigger)
SqlExpired(row, t) == TextLess(row.expires_at, SqlDatetime(t))

\* ------------------------------------------------------------ node-cache
\* An entry: the value, the expiry stamp, and (for the properties) the
\* setIssue call the value descends from.
NoSrc == [key |-> <<>>, rec |-> NoIssue]

\* The ttl arguments callers pass; 0 stands for an omitted (or zero) ttl.
TTLArgs == {0, 1}

\* const cacheTTL = ttl || this.defaultTTL
CacheTTL(ttl) == IF ttl = 0 THEN DefaultTTL ELSE ttl

\* A cache whose entries never expire.
MemExpiryNever(ttl, t) == 0

\* node-cache: the expiry stamp of an entry set at time t; 0 never expires.
MemExpiry(ttl, t) == IF ttl = 0 THEN 0 ELSE t + ttl

\* node-cache _check: an entry is expired once its stamp is before the clock.
MemLive(e, t) == e.t = 0 \/ ~(e.t < t)

MemHas(m, k, t) == k \in DOMAIN m /\ MemLive(m[k], t)

\* A memoryCache.set that stores nothing.
MemSetLost(m, k, v, ttl, t, src, via) == m

\* memoryCache.set(key, value, ttl)
MemSet(m, k, v, ttl, t, src, via) ==
  [x \in (DOMAIN m) \cup {k} |->
     IF x = k
       THEN [v |-> v, t |-> MemExpiry(ttl, t), src |-> src, via |-> via]
       ELSE m[x]]

\* memoryCache.del(key)
MemDel(m, k) == [x \in (DOMAIN m) \ {k} |-> m[x]]

\* node-cache checkData / the expiry check of get: expired entries are deleted.
MemSweep(m, t) == [x \in {y \in DOMAIN m : MemLive(m[y], t)} |-> m[x]]

\* --------------------------------------------------------- issues table
\* JSON.stringify / JSON.parse of the labels array.
JSONStringify(x) == [json |-> x]
JSONParse(text) == text.json

\* The bound parameters of the INSERT OR REPLACE in saveToDatabase.
IssueToRow(issue, owner, repo, expiresAt) ==
  [id |-> issue.id, number |-> issue.number, owner |-> owner, repo |-> repo,
   title |-> issue.title, body |-> issue.body, state |-> issue.state,
   draft |-> IF issue.draft = "true" THEN 1 ELSE 0,
   user_login |-> issue.user.login,
   user_avatar_url |-> issue.user.avatar_url,
   labels |-> JSONStringify(issue.labels),
   comments |-> issue.comments, html_url |-> issue.html_url,
   created_at |-> issue.created_at, updated_at |-> issue.updated_at,
   expires_at |-> expiresAt]

\* A conversion that loses the labels column.
RowToIssueNoLabels(row, owner, repo) ==
  [id |-> row.id, number |-> row.number, title |-> row.title,
   body |-> row.body, state |-> row.state,
   draft |-> IF row.draft = 1 THEN "true" ELSE "false",
   user |-> [login |-> row.user_login, avatar_url |-> row.user_avatar_url],
   labels |-> <<>>,
   created_at |-> row.created_at, updated_at |-> row.updated_at,
   comments |-> row.comments, html_url |-> row.html_url,
   repository |-> [owner |-> owner, name |-> repo]]

\* The GitHubIssue getFromDatabase builds from a row.
RowToIssue(row, owner, repo) ==
  [id |-> row.id, number |-> row.number, title |-> row.title,
   body |-> row.body, state |-> row.state,
   draft |-> IF row.draft = 1 THEN "true" ELSE "false",
   user |-> [login |-> row.user_login, avatar_url |-> row.user_avatar_url],
   labels |-> JSONParse(row.labels),
   created_at |-> row.created_at, updated_at |-> row.updated_at,
   comments |-> row.comments, html_url |-> row.html_url,
   repository |-> [owner |-> owner, name |-> repo]]

\* A row together with the setIssue call that wrote it.
Stamp(row, src) ==
  [f \in (DOMAIN row) \cup {"src"} |-> IF f = "src" THEN src ELSE row[f]]

\* AFTER INSERT trigger cleanup_expired_issues.
CleanupTrigger(rows, t) == {r \in rows : ~SqlExpired(r, t)}

\* INSERT OR REPLACE: rows that conflict on the primary key id or on
\* UNIQUE(owner, repo, number) are deleted, the row is inserted, and the
\* insert trigger runs.
InsertOrReplace(rows, row, t) ==
  CleanupTrigger(
    {r \in rows : ~(r.id = row.id
                    \/ (r.owner = row.owner /\ r.repo = row.repo
                        /\ r.number = row.number))} \cup {row}, t)

\* SELECT * FROM issues WHERE owner = ? AND repo = ? AND number = ?
\*   AND expires_at > datetime("now")
SelectLive(rows, owner, repo, number, t) ==
  {r \in rows : r.owner = owner /\ r.repo = repo /\ r.number = number
                /\ SqlLive(r, t)}

\* A DELETE whose WHERE clause leaves out the number.
DeleteRowAnyNumber(rows, owner, repo, number) ==
  {r \in rows : ~(r.owner = owner /\ r.repo = repo)}

\* DELETE FROM issues WHERE owner = ? AND repo = ? AND number = ?
DeleteRow(rows, owner, repo, number) ==
  {r \in rows : ~(r.owner = owner /\ r.repo = repo /\ r.number = number)}

\* ---------------------------------------------------------------- state
VARIABLES
  now,     \* Date.now(), in seconds
  mem,     \* memoryCache: key -> entry
  db,      \* rows of the issues table
  dbUp,    \* whether the persistent store answers
  stats,   \* CacheService.stats
  tasks,   \* the cache calls in flight, one record per task
  last,    \* the call that returned in the step just taken, if any
  calls,   \* calls started so far
  guar,    \* per key, the latest set and what it promises (for the properties)
  flow,    \* the requests (/send, message) being handled, one record each
  dbm,     \* the DatabaseManager: its connection and the calls on it
  proc,    \* the module-level singletons of the process
  made     \* gets invoked, sets and deletes returned (for the properties)

vars ==
  <<now, mem, db, dbUp, stats, tasks, last, calls, guar, flow, dbm, proc,
    made>>

\* The callers of the cache and the DatabaseManager are modelled in
\* specifications of their own; the cache specifications leave them alone.
NoFlow == <<>>
NoDbm == <<>>
NoProc == <<>>

\* guar[k].st: "none" (no set since the last delete / clear), "pending" (a
\* set is in flight), "active" (it returned), "durable" (it returned in an
\* earlier process).  until: the time of the set plus its ttl.  failed: its
\* persistent write failed.  A get is issued under the promise of the latest
\* set: the same record, or with st "late" once more than the ttl has passed.
NoGuar == [st |-> "none", v |-> NoIssue, until |-> 0, failed |-> FALSE]

NoDbValue == [found |-> FALSE, v |-> NoIssue, src |-> NoSrc]

\* A call in flight: the handler's locals, and for the properties what was
\* promised to it when it was issued (g) and whether a set on the same key
\* overlapped it, or for a get a delete or clear (overlap); for a set, the
\* values of the sets of the same key that overlapped it (peers).
IdleTask ==
  [pc |-> "idle", op |-> "none", key |-> <<>>, arg |-> NoIssue, ttl |-> 0,
   dbValue |-> NoDbValue, dbOps |-> 0, dbFailed |-> FALSE,
   g |-> NoGuar, overlap |-> FALSE, peers |-> {}]

\* A call that has returned: what it returned and how.
NoCall ==
  [op |-> "none", key |-> <<>>, ret |-> "none", val |-> NoIssue,
   src |-> NoSrc, served |-> "none", via |-> "none", dbOps |-> 0,
   dbFailed |-> FALSE, fault |-> FALSE, g |-> NoGuar, overlap |-> FALSE,
   size |-> 0, code |-> "none", status |-> 0, cause |-> 0, swept |-> {},
   ttl |-> 0, supplied |-> FALSE, object |-> <<>>, triple |-> <<>>,
   peers |-> {}]

ZeroStats == [hits |-> 0, misses |-> 0, sets |-> 0, deletes |-> 0]

\* No call made yet on the service instance (made counts the gets invoked
\* and the sets and deletes that returned normally).
NoMade == [gets |-> 0, sets |-> 0, deletes |-> 0]

EmptyMem ==
  [k \in {} |-> [v |-> NoIssue, t |-> 0, src |-> NoSrc, via |-> "set"]]

\* A row an earlier process of the bot left in the store: setIssue of the
\* first record, with the default TTL, at time 1.
PriorKey == GITHUB_ISSUE(<<"octo">>, <<"repo">>, 1)
PriorIssue == MkIssue(1, 1, "Bug", Null, "false", <<>>, 0, OctoRepo)
PriorRow ==
  Stamp(IssueToRow(PriorIssue, <<"octo">>, <<"repo">>,
                   ToISOString(1 + DefaultTTL)),
        [key |-> PriorKey, rec |-> PriorIssue])

Init ==
  /\ now = 1
  /\ mem = EmptyMem
  /\ db \in {{}, {PriorRow}}
  /\ dbUp = TRUE
  /\ stats = ZeroStats
  /\ tasks = [t \in Tasks |-> IdleTask]
  /\ last = NoCall
  /\ calls = 0
  /\ proc = NoProc
  /\ made = NoMade
  /\ guar = [k \in Keys |->
       IF db # {} /\ k = PriorKey
         THEN [NoGuar EXCEPT !.st = "durable", !.v = PriorIssue,
                             !.until = 1 + DefaultTTL]
         ELSE NoGuar]
  /\ flow = NoFlow
  /\ dbm = NoDbm

\* A call starts on the first free task (the tasks are interchangeable).
CanCall(t) ==
  /\ tasks[t].pc = "idle"
  /\ calls < MaxCalls
  /\ \A u \in Tasks : u < t => tasks[u].pc # "idle"

\* A set, delete or clear of the keys ks is invoked: the gets of those keys
\* that are in flight lose what was promised to them.
Disturb(ts, ks) ==
  [u \in Tasks |->
     IF ts[u].op = "get" /\ ts[u].key \in ks
       THEN [ts[u] EXCEPT !.g = NoGuar]
       ELSE ts[u]]

\* A delete or clear is invoked: the gets in flight on the keys ks lose
\* their promise and are marked as overlapped by a removal.
DisturbByRemoval(ts, ks) ==
  [u \in Tasks |->
     IF ts[u].op = "get" /\ ts[u].key \in ks
       THEN [ts[u] EXCEPT !.g = NoGuar, !.overlap = TRUE]
       ELSE ts[u]]

\* The record of a call of task record me that returns ret.  stillOwed:
\* the promise a get was issued under still stands when it returns (a
\* promised value has not run out of its ttl while the get was suspended).
Returned(me, ret) ==
  LET stillOwed == /\ me.op = "get"
                   /\ me.g.st # "none"
                   /\ me.g.st = "late" \/ now < me.g.until
  IN
  [NoCall EXCEPT !.op = me.op, !.key = me.key, !.ret = ret,
                 !.val = me.arg, !.peers = me.peers,
                 !.dbOps = me.dbOps, !.dbFailed = me.dbFailed,
                 !.g = IF stillOwed THEN me.g ELSE NoGuar,
                 !.overlap = me.overlap]

\* Countings that are off by one, or that start over.
CountHitTwice(s) == [s EXCEPT !.hits = @ + 2]
CountMissNever(s) == s
CountSetAnew(s) == [hits |-> 0, misses |-> 0, sets |-> 1, deletes |-> 0]

\* stats.hits++ / stats.misses++ / stats.sets++ / stats.deletes++
CountHit(s) == [s EXCEPT !.hits = @ + 1]
CountMiss(s) == [s EXCEPT !.misses = @ + 1]
CountSet(s) == [s EXCEPT !.sets = @ + 1]
CountDelete(s) == [s EXCEPT !.deletes = @ + 1]

\* The time an expires_at text denotes.
ExpiresAt(row) == row.expires_at.date * DayLen + row.expires_at.time

\* What the latest set of key k promises to a get issued now: its value
\* while its ttl has not elapsed, absence ("late") once more than the ttl
\* has passed since the set and since the write of every row of k.
Promise(k) ==
  LET g == guar[k] IN
  IF g.st \notin {"active", "durable"} THEN NoGuar
  ELSE IF now < g.until THEN g
  ELSE IF now > g.until /\ \A r \in db : r.src.key = k => ExpiresAt(r) < now
    THEN [g EXCEPT !.st = "late"]
  ELSE NoGuar

\* ------------------------------------------------------------------- get
\* get(key) up to its first await: the fast-cache lookup.  memFault: the
\* lookup throws, which the catch turns into a miss.
GetBegin(t, k, memFault) ==
  /\ CanCall(t)
  /\ calls' = calls + 1
  /\ LET call == [IdleTask EXCEPT !.op = "get", !.key = k,
                                  !.g = Promise(k)] IN
     IF memFault
       THEN /\ last' = [Returned(call, "null") EXCEPT !.fault = TRUE]
            /\ tasks' = tasks
            /\ stats' = CountMiss(stats)
            /\ mem' = mem
       ELSE IF MemHas(mem, k, now)
         THEN /\ last' = [Returned(call, "value") EXCEPT
                            !.val = mem[k].v, !.src = mem[k].src,
                            !.served = "mem", !.via = mem[k].via]
              /\ tasks' = tasks
              /\ stats' = CountHit(stats)
              /\ mem' = mem
         ELSE /\ tasks' = [tasks EXCEPT ![t] = [call EXCEPT !.pc = "get_db"]]
              /\ last' = NoCall
              /\ stats' = stats
              /\ mem' = MemDel(mem, k)
  /\ made' = [made EXCEPT !.gets = @ + 1]
  /\ UNCHANGED <<proc, flow, dbm, now, db, dbUp, guar>>

\* getFromDatabase(key): the SELECT runs.  An unavailable store throws
\* inside getFromDatabase, which catches and returns null.
GetFromDatabase(key) ==
  IF ~dbUp
    THEN NoDbValue
    ELSE IF StartsWithIssuePrefix(key) /\ Len(key) >= 5
      THEN LET owner == <<key[3]>>
               repo == <<key[4]>>
               rows == SelectLive(db, owner, repo, ParseInt(key[5]), now)
           IN IF rows = {}
                THEN NoDbValue
                ELSE LET row == CHOOSE r \in rows : TRUE IN
                     [found |-> TRUE, v |-> RowToIssue(row, owner, repo),
                      src |-> row.src]
      ELSE NoDbValue

GetDb(t) ==
  /\ tasks[t].pc = "get_db"
  /\ tasks' = [tasks EXCEPT ![t] =
       [tasks[t] EXCEPT !.pc = "get_end",
                        !.dbValue = GetFromDatabase(tasks[t].key),
                        !.dbOps = @ + 1, !.dbFailed = ~dbUp]]
  /\ last' = NoCall
  /\ UNCHANGED <<made, proc, flow, dbm, now, mem, db, dbUp, stats, calls, guar>>

\* get(key) after the persistent read: promotion and counters.  memFault:
\* the promoting memoryCache.set throws.
GetEnd(t, memFault) ==
  /\ tasks[t].pc = "get_end"
  /\ memFault => tasks[t].dbValue.found
  /\ LET me == tasks[t] IN
     IF me.dbValue.found /\ ~memFault
       THEN /\ mem' = MemSet(mem, me.key, me.dbValue.v, DefaultTTL, now,
                             me.dbValue.src, "promo")
            /\ stats' = CountHit(stats)
            /\ last' = [Returned(me, "value") EXCEPT
                          !.val = me.dbValue.v, !.src = me.dbValue.src,
                          !.served = "db"]
       ELSE /\ mem' = mem
            /\ stats' = CountMiss(stats)
            /\ last' = [Returned(me, "null") EXCEPT !.fault = memFault]
  /\ tasks' = [tasks EXCEPT ![t] = IdleTask]
  /\ UNCHANGED <<made, proc, flow, dbm, now, db, dbUp, calls, guar>>

\* ------------------------------------------------------------------- set
\* The values of the sets of key k in flight, with those of the sets that
\* overlapped them.
SetsInFlight(ts, k) ==
  UNION {{ts[u].arg} \cup ts[u].peers :
           u \in {w \in Tasks : ts[w].op = "set" /\ ts[w].key = k}}

\* A set of value v on key k is invoked: the sets of k in flight have it
\* as a peer.
Overlapped(ts, k, v) ==
  [u \in Tasks |->
     IF ts[u].op = "set" /\ ts[u].key = k
       THEN [ts[u] EXCEPT !.peers = @ \cup {v}]
       ELSE ts[u]]

\* set(key, value, ttl) up to its first await: the fast-cache write.
SetBegin(t, k, v, ttl) ==
  /\ CanCall(t)
  /\ calls' = calls + 1
  /\ mem' = MemSet(mem, k, v, CacheTTL(ttl), now, [key |-> k, rec |-> v],
                   "set")
  /\ tasks' = [Overlapped(Disturb(tasks, {k}), k, v) EXCEPT ![t] =
       [IdleTask EXCEPT !.op = "set", !.key = k, !.arg = v,
                        !.ttl = CacheTTL(ttl), !.pc = "set_db",
                        !.peers = SetsInFlight(tasks, k),
                        !.g = [st |-> "pending", v |-> v,
                               until |-> now + CacheTTL(ttl),
                               failed |-> FALSE]]]
  /\ guar' = [guar EXCEPT ![k] =
       [st |-> "pending", v |-> v, until |-> now + CacheTTL(ttl),
        failed |-> FALSE]]
  /\ last' = NoCall
  /\ UNCHANGED <<made, proc, flow, dbm, now, db, dbUp, stats>>

\* saveToDatabase(key, value, ttl): the rows after the call.  An unavailable
\* store throws inside saveToDatabase, which catches and logs.
SaveToDatabase(key, value, ttl) ==
  IF /\ dbUp /\ StartsWithIssuePrefix(key) /\ Len(key) >= 5
     /\ value.number # 0 /\ value.title # ""
    THEN InsertOrReplace(db,
           Stamp(IssueToRow(value, <<key[3]>>, <<key[4]>>,
                            ToISOString(now + ttl)),
                 [key |-> key, rec |-> value]),
           now)
    ELSE db

\* Whether the latest set of the task's key is the task's own.
Latest(t) == guar[tasks[t].key] = tasks[t].g

SetDb(t) ==
  /\ tasks[t].pc = "set_db"
  /\ db' = SaveToDatabase(tasks[t].key, tasks[t].arg, tasks[t].ttl)
  /\ tasks' = [tasks EXCEPT ![t] =
       [tasks[t] EXCEPT !.pc = "set_end", !.dbOps = @ + 1,
                        !.dbFailed = ~dbUp, !.g.failed = ~dbUp]]
  /\ guar' = IF Latest(t)
               THEN [guar EXCEPT ![tasks[t].key].failed = ~dbUp]
               ELSE guar
  /\ last' = NoCall
  /\ UNCHANGED <<made, proc, flow, dbm, now, mem, dbUp, stats, calls>>

\* What set does once saveToDatabase has returned: saveToDatabase has
\* caught its own failure, so the try block of set runs to its end.
SetOutcome(dbFailed) == "void"

SetEnd(t) ==
  /\ tasks[t].pc = "set_end"
  /\ LET out == SetOutcome(tasks[t].dbFailed) IN
     /\ stats' = IF out = "void" THEN CountSet(stats) ELSE stats
     /\ last' = Returned(tasks[t], out)
     /\ guar' = IF Latest(t)
                  THEN [guar EXCEPT ![tasks[t].key] =
                          IF out = "void" THEN [@ EXCEPT !.st = "active"]
                                          ELSE NoGuar]
                  ELSE guar
  /\ tasks' = [tasks EXCEPT ![t] = IdleTask]
  /\ made' = IF SetOutcome(tasks[t].dbFailed) = "void" THEN [made EXCEPT !.sets = @ + 1]
                                                        ELSE made
  /\ UNCHANGED <<proc, flow, dbm, now, mem, db, dbUp, calls>>

\* ---------------------------------------------------------------- delete
\* delete(key) up to its first await: the fast-cache removal.
DeleteBegin(t, k) ==
  /\ CanCall(t)
  /\ calls' = calls + 1
  /\ mem' = MemDel(mem, k)
  /\ tasks' = [DisturbByRemoval(tasks, {k}) EXCEPT ![t] =
       [IdleTask EXCEPT !.op = "delete", !.key = k, !.pc = "del_db",
                        !.overlap = \E u \in Tasks :
                           tasks[u].op = "set" /\ tasks[u].key = k]]
  /\ guar' = [guar EXCEPT ![k] = NoGuar]
  /\ last' = NoCall
  /\ UNCHANGED <<made, proc, flow, dbm, now, db, dbUp, stats>>

\* deleteFromDatabase(key): the rows after the call.  An unavailable store
\* throws inside deleteFromDatabase, which catches and logs.
DeleteFromDatabase(key) ==
  IF dbUp /\ StartsWithIssuePrefix(key) /\ Len(key) >= 5
    THEN DeleteRow(db, <<key[3]>>, <<key[4]>>, ParseInt(key[5]))
    ELSE db

DeleteDb(t) ==
  /\ tasks[t].pc = "del_db"
  /\ db' = DeleteFromDatabase(tasks[t].key)
  /\ tasks' = [tasks EXCEPT ![t] =
       [tasks[t] EXCEPT !.pc = "del_end", !.dbOps = @ + 1,
                        !.dbFailed = ~dbUp]]
  /\ last' = NoCall
  /\ UNCHANGED <<made, proc, flow, dbm, now, mem, dbUp, stats, calls, guar>>

DeleteEnd(t) ==
  /\ tasks[t].pc = "del_end"
  /\ stats' = CountDelete(stats)
  /\ last' = Returned(tasks[t], "void")
  /\ tasks' = [tasks EXCEPT ![t] = IdleTask]
  /\ made' = [made EXCEPT !.deletes = @ + 1]
  /\ UNCHANGED <<proc, flow, dbm, now, mem, db, dbUp, calls, guar>>

\* ----------------------------------------------------------------- clear
\* clear() up to its first await: memoryCache.flushAll().
ClearBegin(t) ==
  /\ CanCall(t)
  /\ calls' = calls + 1
  /\ mem' = EmptyMem
  /\ tasks' = [DisturbByRemoval(tasks, Keys) EXCEPT ![t] =
       [IdleTask EXCEPT !.op = "clear", !.pc = "clr_db",
                        !.overlap = \E u \in Tasks : tasks[u].op = "set"]]
  /\ guar' = [k \in Keys |-> NoGuar]
  /\ last' = NoCall
  /\ UNCHANGED <<made, proc, flow, dbm, now, db, dbUp, stats>>

\* clearDatabase(): DELETE FROM issues; a failure is caught and logged.
ClearDatabase == IF dbUp THEN {} ELSE db

ClearDb(t) ==
  /\ tasks[t].pc = "clr_db"
  /\ db' = ClearDatabase
  /\ tasks' = [tasks EXCEPT ![t] =
       [tasks[t] EXCEPT !.pc = "clr_end", !.dbOps = @ + 1,
                        !.dbFailed = ~dbUp]]
  /\ last' = NoCall
  /\ UNCHANGED <<made, proc, flow, dbm, now, mem, dbUp, stats, calls, guar>>

ClearEnd(t) ==
  /\ tasks[t].pc = "clr_end"
  /\ last' = Returned(tasks[t], "void")
  /\ tasks' = [tasks EXCEPT ![t] = IdleTask]
  /\ UNCHANGED <<made, proc, flow, dbm, now, mem, db, dbUp, stats, calls, guar>>

\* ----------------------------------------------------------- environment
\* One second passes.
Tick ==
  /\ now < MaxTime
  /\ now' = now + 1
  /\ last' = NoCall
  /\ UNCHANGED <<made, proc, flow, dbm, mem, db, dbUp, stats, tasks, calls, guar>>

\* node-cache's periodic check (checkperiod) deletes the expired entries.
Sweep ==
  /\ mem' = MemSweep(mem, now)
  /\ mem' # mem
  /\ last' = NoCall
  /\ UNCHANGED <<made, proc, flow, dbm, now, db, dbUp, stats, tasks, calls, guar>>

\* The persistent store becomes unavailable, or available again.
StoreFails ==
  /\ dbUp
  /\ dbUp' = FALSE
  /\ last' = NoCall
  /\ UNCHANGED <<made, proc, flow, dbm, now, mem, db, stats, tasks, calls, guar>>

StoreRecovers ==
  /\ ~dbUp
  /\ dbUp' = TRUE
  /\ last' = NoCall
  /\ UNCHANGED <<made, proc, flow, dbm, now, mem, db, stats, tasks, calls, guar>>

\* A new CacheService over the same store (process restart): the fast
\* cache and the counters start empty, no call is in flight.
NewService ==
  /\ \A t \in Tasks : tasks[t].pc = "idle"
  /\ calls > 0
  /\ mem' = EmptyMem
  /\ stats' = ZeroStats
  /\ last' = NoCall
  /\ guar' = [k \in Keys |->
       IF guar[k].st \in {"active", "durable"}
         THEN [guar[k] EXCEPT !.st = "durable"]
         ELSE NoGuar]
  /\ made' = NoMade
  /\ UNCHANGED <<proc, flow, dbm, now, db, dbUp, tasks, calls>>

Next ==
  \/ \E t \in Tasks, k \in Keys, f \in BOOLEAN : GetBegin(t, k, f)
  \/ \E t \in Tasks : GetDb(t)
  \/ \E t \in Tasks, f \in BOOLEAN : GetEnd(t, f)
  \/ \E t \in Tasks, k \in Keys, ttl \in TTLArgs :
       \E v \in ValuesFor(k) : SetBegin(t, k, v, ttl)
  \/ \E t \in Tasks : SetDb(t)
  \/ \E t \in Tasks : SetEnd(t)
  \/ \E t \in Tasks, k \in Keys : DeleteBegin(t, k)
  \/ \E t \in Tasks : DeleteDb(t)
  \/ \E t \in Tasks : DeleteEnd(t)
  \/ \E t \in Tasks : ClearBegin(t)
  \/ \E t \in Tasks : ClearDb(t)
  \/ \E t \in Tasks : ClearEnd(t)
  \/ Tick
  \/ Sweep
  \/ StoreFails
  \/ StoreRecovers
  \/ NewService

Spec == Init /\ [][Next]_vars

\* ------------------------------------------------------------ properties
\* A get(k) is invoked in this step: it returns at once or suspends.
GetStarts(k) ==
  /\ calls' = calls + 1
  /\ \/ last'.op = "get" /\ last'.key = k
     \/ \E t \in Tasks : /\ tasks[t].pc = "idle"
                         /\ tasks'[t].op = "get" /\ tasks'[t].key = k

\* The rows of the table under the (owner, repo, number) of key k.
RowsOf(k) ==
  {r \in db : r.owner = <<k[3]>> /\ r.repo = <<k[4]>>
              /\ r.number = ParseInt(k[5])}

\* The last call was a get that met no failure of either tier.
CleanGet == last.op = "get" /\ ~last.fault /\ ~last.dbFailed

\* C1: whenever the fast cache holds a live entry for k, a get(k) returns
\* that entry's value at once, adds exactly one to hits (and nothing to the
\* other counters) and issues no persistent-store operation; the state of
\* the store (available or not) plays no part.
C1_FastCacheHit ==
  [][\A k \in Keys :
       (k \in DOMAIN mem /\ MemLive(mem[k], now) /\ GetStarts(k)
        /\ ~last'.fault)
       => /\ last'.op = "get" /\ last'.ret = "value"
          /\ last'.val = mem[k].v
          /\ last'.dbOps = 0
          /\ stats' = [stats EXCEPT !.hits = @ + 1]
          /\ db' = db
          /\ tasks' = tasks]_vars

\* A get was answered by the fast cache while the store was unavailable.
C1_Witness ==
  /\ last.op = "get" /\ last.served = "mem" /\ last.ret = "value"
  /\ last.dbOps = 0
  /\ ~dbUp
  /\ stats.hits > 0

\* C2: a get(k) that finds no live fast-cache entry and whose persistent
\* read reaches a live row of k takes that row's value; a get whose read
\* found a row returns its value, counts one hit and leaves a live
\* fast-cache entry with that value; and a get(k) that finds that promoted
\* entry live is answered by the fast cache with no persistent read.
C2_ReadThroughPromotion ==
  [][/\ \A t \in Tasks :
          (tasks[t].pc = "get_db" /\ tasks'[t].pc = "get_end" /\ dbUp)
          => \A r \in RowsOf(tasks[t].key) :
               now < ExpiresAt(r)
               => /\ tasks'[t].dbValue.found
                  /\ tasks'[t].dbValue.v = RowToIssue(r, r.owner, r.repo)
     /\ \A t \in Tasks :
          (tasks[t].pc = "get_end" /\ tasks'[t].pc = "idle"
           /\ tasks[t].dbValue.found /\ ~last'.fault)
          => /\ last'.ret = "value"
             /\ last'.val = tasks[t].dbValue.v
             /\ stats' = [stats EXCEPT !.hits = @ + 1]
             /\ MemHas(mem', tasks[t].key, now)
             /\ mem'[tasks[t].key].v = tasks[t].dbValue.v
     /\ \A k \in Keys :
          (MemHas(mem, k, now) /\ mem[k].via = "promo" /\ GetStarts(k)
           /\ ~last'.fault)
          => /\ last'.served = "mem"
             /\ last'.val = mem[k].v
             /\ last'.dbOps = 0]_vars

\* A get was answered by the fast cache from an entry that an earlier get
\* had promoted from the persistent tier.
C2_Witness ==
  /\ last.op = "get" /\ last.served = "mem" /\ last.via = "promo"
  /\ last.ret = "value" /\ last.dbOps = 0
  /\ stats.hits > 1

\* C3: a get during which the fast cache or the persistent store failed
\* returns null (it never raises) and adds exactly one to misses and
\* nothing to hits.
C3_GetFailureIsOneMiss ==
  [][(last'.op = "get" /\ (last'.fault \/ last'.dbFailed))
     => /\ last'.ret = "null"
        /\ stats' = [stats EXCEPT !.misses = @ + 1]]_vars

\* A get whose persistent read failed returned null.
C3_Witness ==
  /\ last.op = "get" /\ last.dbFailed /\ last.dbOps = 1
  /\ last.ret = "null"
  /\ stats.misses > 0

\* C4: a set whose persistent write failed raises CacheError.
C4_SetRaisesOnFailedWrite ==
  (last.op = "set" /\ last.dbFailed) => last.ret = "CacheError"

\* C5: a get(k) issued before the ttl of the latest set(k, v, ttl) has
\* elapsed, where that set's persistent write failed and no delete, clear
\* or other set came after it, returns v.
C5_NoRollbackAfterFailedWrite ==
  (CleanGet /\ last.g.st = "active" /\ last.g.failed)
  => (last.ret = "value" /\ last.val = last.g.v)

\* C6: a get(k) issued in a new service over the same store, before the
\* ttl of the set(k, v) that returned in the earlier process has elapsed,
\* returns v.
C6_DurableAcrossRestart ==
  (CleanGet /\ last.g.st = "durable")
  => (last.ret = "value"
      /\ CachedIssueAttrs(last.val) = CachedIssueAttrs(last.g.v))

C8_SetThenGet ==
  (CleanGet /\ last.g.st = "active")
  => (last.ret = "value" /\ last.val = last.g.v)

\* C9: a get(k) issued when more than ttl seconds have passed since the
\* latest set(k, v, ttl) (and since the write of its row) returns null:
\* neither tier yields the entry.
C9_ExpiredIsAbsent ==
  (last.op = "get" /\ last.g.st = "late") => last.ret = "null"

\* C10: when a delete(k) that no set of k overlapped or followed has
\* returned normally, the fast cache has no entry for k and the table has
\* no row under k's (owner, repo, number).
C10_DeleteRemovesBothTiers ==
  (last.op = "delete" /\ last.ret = "void" /\ ~last.overlap
   /\ guar[last.key].st = "none")
  => (last.key \notin DOMAIN mem /\ RowsOf(last.key) = {})

\* C11: when a clear() that no set overlapped or followed has returned
\* normally, the fast cache has no entry and the table has no row.
C11_ClearEmptiesBothTiers ==
  (last.op = "clear" /\ last.ret = "void" /\ ~last.overlap
   /\ \A k \in Keys : guar[k].st = "none")
  => (mem = EmptyMem /\ db = {})

\* --------------------------------------------- whole calls over two keys
\* One caller at a time: each call runs from its invocation to its return
\* in one step, over the keys of two issues of one repository.  The record
\* passed to set need not carry the number the key was built from (setIssue
\* takes the number and the record separately).
SeqNumbers == {1, 2}
SeqKeys == {GITHUB_ISSUE(<<"octo">>, <<"repo">>, n) : n \in SeqNumbers}
SeqValues ==
  {MkIssue(n, n, "Bug", Null, "false", <<>>, 0, OctoRepo) : n \in SeqNumbers}

SeqInit ==
  /\ now = 1
  /\ mem = EmptyMem
  /\ db = {}
  /\ dbUp = TRUE
  /\ stats = ZeroStats
  /\ tasks = [t \in Tasks |-> IdleTask]
  /\ last = NoCall
  /\ calls = 0
  /\ proc = NoProc
  /\ made = NoMade
  /\ guar = [k \in Keys |-> NoGuar]
  /\ flow = NoFlow
  /\ dbm = NoDbm

\* The record of a whole call op on key k that returns ret.
SeqReturned(op, k, ret) ==
  [NoCall EXCEPT !.op = op, !.key = k, !.ret = ret, !.dbOps = 1,
                 !.dbFailed = ~dbUp]

\* get(key), from invocation to return: what it returns, and the fast
\* cache and the counters it leaves.
GetWhole(k) ==
  IF MemHas(mem, k, now)
    THEN [ret |-> "value", val |-> mem[k].v, src |-> mem[k].src,
          served |-> "mem", via |-> mem[k].via, mem |-> mem,
          stats |-> CountHit(stats)]
    ELSE LET dbValue == GetFromDatabase(k) IN
         IF dbValue.found
           THEN [ret |-> "value", val |-> dbValue.v, src |-> dbValue.src,
                 served |-> "db", via |-> "none",
                 mem |-> MemSet(mem, k, dbValue.v, DefaultTTL, now,
                                dbValue.src, "promo"),
                 stats |-> CountHit(stats)]
           ELSE [ret |-> "null", val |-> NoIssue, src |-> NoSrc,
                 served |-> "none", via |-> "none", mem |-> MemDel(mem, k),
                 stats |-> CountMiss(stats)]

SeqGet(k) ==
  /\ calls < MaxCalls
  /\ calls' = calls + 1
  /\ LET out == GetWhole(k) IN
     /\ mem' = out.mem
     /\ stats' = out.stats
     /\ last' = [NoCall EXCEPT !.op = "get", !.key = k, !.ret = out.ret,
                   !.val = out.val, !.src = out.src, !.served = out.served,
                   !.via = out.via,
                   !.dbOps = IF out.served = "mem" THEN 0 ELSE 1,
                   !.dbFailed = out.served # "mem" /\ ~dbUp]
  /\ made' = [made EXCEPT !.gets = @ + 1]
  /\ UNCHANGED <<proc, flow, dbm, now, db, dbUp, tasks, guar>>

\* BotError.code of the error classes.
ErrorCode(class) ==
  CASE class = "CacheError" -> "CACHE_ERROR"
    [] class = "GitHubAPIError" -> "GITHUB_API_ERROR"
    [] class = "DatabaseError" -> "DATABASE_ERROR"
    [] OTHER -> "none"

\* The record of a whole call op on key k that threw an error of a class.
SeqThrew(op, k, class) ==
  [NoCall EXCEPT !.op = op, !.key = k, !.ret = class,
                 !.code = ErrorCode(class), !.fault = TRUE]

\* set(key, value, ttl), from invocation to return.  memFault: the
\* memoryCache.set throws, which the catch wraps in a CacheError.
\* supplied: the caller passed a ttl argument (a ttl of 0 that is not
\* supplied is an omitted one; the code cannot tell them apart).
SeqSet(k, v, ttl, supplied, memFault) ==
  /\ calls < MaxCalls
  /\ ttl # 0 => supplied
  /\ calls' = calls + 1
  /\ IF memFault
       THEN /\ last' = SeqThrew("set", k, "CacheError")
            /\ UNCHANGED <<mem, db, stats>>
       ELSE /\ mem' = MemSet(mem, k, v, CacheTTL(ttl), now,
                             [key |-> k, rec |-> v], "set")
            /\ db' = SaveToDatabase(k, v, CacheTTL(ttl))
            /\ stats' = CountSet(stats)
            /\ last' = [SeqReturned("set", k, SetOutcome(~dbUp)) EXCEPT
                          !.ttl = ttl, !.supplied = supplied]
  /\ made' = IF memFault THEN made ELSE [made EXCEPT !.sets = @ + 1]
  /\ UNCHANGED <<proc, flow, dbm, now, dbUp, tasks, guar>>

\* delete(key), from invocation to return.  memFault: memoryCache.del
\* throws.
SeqDelete(k, memFault) ==
  /\ calls < MaxCalls
  /\ calls' = calls + 1
  /\ IF memFault
       THEN /\ last' = SeqThrew("delete", k, "CacheError")
            /\ UNCHANGED <<mem, db, stats>>
       ELSE /\ mem' = MemDel(mem, k)
            /\ db' = DeleteFromDatabase(k)
            /\ stats' = CountDelete(stats)
            /\ last' = SeqReturned("delete", k, "void")
  /\ made' = IF memFault THEN made ELSE [made EXCEPT !.deletes = @ + 1]
  /\ UNCHANGED <<proc, flow, dbm, now, dbUp, tasks, guar>>

\* clear(), from invocation to return.  memFault: flushAll throws.
SeqClear(memFault) ==
  /\ calls < MaxCalls
  /\ calls' = calls + 1
  /\ IF memFault
       THEN /\ last' = SeqThrew("clear", <<>>, "CacheError")
            /\ UNCHANGED <<mem, db>>
       ELSE /\ mem' = EmptyMem
            /\ db' = ClearDatabase
            /\ last' = SeqReturned("clear", <<>>, "void")
  /\ UNCHANGED <<made, proc, flow, dbm, now, dbUp, stats, tasks, guar>>

\* The errors octokit's issues.get can reject with, by their status; 0
\* stands for an error without a status (network failure, TypeError).
UpstreamErrors == {0, 401, 403, 404, 422, 502}

\* A catch that reports every failure as a 500.
GetIssueCatchAll(status) == 500

\* The catch of GitHubService.getIssue: the status of the GitHubAPIError
\* it throws for an upstream error.
GetIssueCatch(status) ==
  IF status = 404 THEN 404
  ELSE IF status = 403 THEN 403
  ELSE IF status = 401 THEN 401
  ELSE IF status = 0 THEN 500 ELSE status

\* GitHubService.getIssue(owner, repo, issueNumber), from invocation to
\* return; err: the upstream error, if any.
SeqFetch(n, failed, err) ==
  /\ calls < MaxCalls
  /\ calls' = calls + 1
  /\ last' = IF failed
       THEN [SeqThrew("fetch", <<>>, "GitHubAPIError") EXCEPT
               !.status = GetIssueCatch(err), !.cause = err]
       ELSE [NoCall EXCEPT !.op = "fetch", !.ret = "value",
               !.val = MkIssue(n, n, "Bug", Null, "false", <<>>, 0, OctoRepo)]
  /\ UNCHANGED <<made, proc, flow, dbm, now, mem, db, dbUp, stats, tasks, guar>>

\* memoryCache.keys().length: node-cache lists every stored key, expired
\* entries that have not been swept included.
MemorySize == Cardinality(DOMAIN mem)

\* getDatabaseCacheSize(): SELECT COUNT(*) ... WHERE expires_at >
\* datetime("now"); a failure is caught and counts as 0.
GetDatabaseCacheSize ==
  IF dbUp THEN Cardinality({r \in db : SqlLive(r, now)}) ELSE 0

Max(a, b) == IF a > b THEN a ELSE b

\* getStats(), from invocation to return.
SeqGetStats ==
  /\ calls < MaxCalls
  /\ calls' = calls + 1
  /\ last' = [SeqReturned("stats", <<>>, "value") EXCEPT
                !.size = Max(MemorySize, GetDatabaseCacheSize),
                !.object = [hits |-> stats.hits, misses |-> stats.misses,
                            size |-> Max(MemorySize, GetDatabaseCacheSize)]]
  /\ UNCHANGED <<made, proc, flow, dbm, now, mem, db, dbUp, stats, tasks, guar>>

\* A purge without its WHERE clause.
CleanupExpiredAll == IF dbUp THEN {} ELSE db

\* cleanupExpired(): DELETE FROM issues WHERE expires_at < datetime("now");
\* a failure is caught and logged.  DatabaseManager.cleanupExpiredCache
\* runs the same statement.
CleanupExpired == IF dbUp THEN {r \in db : ~SqlExpired(r, now)} ELSE db

SeqCleanupExpired ==
  /\ calls < MaxCalls
  /\ calls' = calls + 1
  /\ db' = CleanupExpired
  /\ last' = [SeqReturned("cleanup", <<>>, "void") EXCEPT
                !.size = Cardinality(db \ CleanupExpired)]
  /\ UNCHANGED <<made, proc, flow, dbm, now, mem, dbUp, stats, tasks, guar>>

\* The periodic check of node-cache between two calls; swept: the keys
\* whose expired entries it deleted.
SeqSweep ==
  /\ mem' = MemSweep(mem, now)
  /\ mem' # mem
  /\ last' = [NoCall EXCEPT !.op = "sweep",
                            !.swept = (DOMAIN mem) \ (DOMAIN mem')]
  /\ UNCHANGED <<made, proc, flow, dbm, now, db, dbUp, stats, tasks, calls, guar>>

SeqNext ==
  \/ \E k \in SeqKeys : SeqGet(k)
  \/ \E k \in SeqKeys, v \in SeqValues, ttl \in TTLArgs,
        supplied \in BOOLEAN, f \in BOOLEAN : SeqSet(k, v, ttl, supplied, f)
  \/ \E k \in SeqKeys, f \in BOOLEAN : SeqDelete(k, f)
  \/ \E f \in BOOLEAN : SeqClear(f)
  \/ \E n \in SeqNumbers, failed \in BOOLEAN, err \in UpstreamErrors :
       SeqFetch(n, failed, err)
  \/ SeqGetStats
  \/ SeqCleanupExpired
  \/ Tick
  \/ SeqSweep
  \/ StoreFails
  \/ StoreRecovers

SeqSpec == SeqInit /\ [][SeqNext]_vars

\* The rows of key k that have not reached their expires_at.
LiveRowsOf(k) == {r \in RowsOf(k) : now < ExpiresAt(r)}

\* C12: a delete(k) invoked when the fast cache has no entry for k and the
\* table has no row under k's (owner, repo, number) returns normally
\* (unless the fast cache itself throws) and leaves the fast cache and the
\* table as they were.
C12_DeleteAbsentIsNoOp ==
  [][(last'.op = "delete" /\ last'.key \notin DOMAIN mem
      /\ RowsOf(last'.key) = {} /\ ~last'.fault)
     => (last'.ret = "void" /\ mem' = mem /\ db' = db)]_vars

\* A delete of a key absent from both tiers returned while both tiers held
\* another key.
C12_Witness ==
  /\ last.op = "delete" /\ last.ret = "void"
  /\ last.key \notin DOMAIN mem /\ RowsOf(last.key) = {}
  /\ \E k \in SeqKeys : k # last.key /\ k \in DOMAIN mem /\ RowsOf(k) # {}

\* C13: a set(k, v) leaves, for every other key, the fast-cache entry and
\* the live row (value and expiry) as they were.
C13_SetChangesOnlyItsKey ==
  [][last'.op = "set"
     => \A k \in SeqKeys \ {last'.key} :
          /\ (k \in DOMAIN mem) = (k \in DOMAIN mem')
          /\ k \in DOMAIN mem => mem'[k] = mem[k]
          /\ {r \in db' : r.owner = <<k[3]>> /\ r.repo = <<k[4]>>
                          /\ r.number = ParseInt(k[5])
                          /\ now < ExpiresAt(r)}
             = LiveRowsOf(k)]_vars

\* C14: the size getStats returns is the larger of the number of fast-cache
\* entries that have not expired and the number of rows that have not
\* reached their expires_at, at the time of the call.
C14_StatsSizeCountsLiveEntries ==
  (last.op = "stats" /\ ~last.dbFailed)
  => last.size = Max(Cardinality({k \in DOMAIN mem : MemLive(mem[k], now)}),
                     Cardinality({r \in db : now < ExpiresAt(r)}))

\* C15: no call makes any of the four counters smaller, and clear,
\* getStats and cleanupExpired leave all four as they were.
C15_CountersNeverDecrease ==
  [][/\ stats'.hits >= stats.hits
     /\ stats'.misses >= stats.misses
     /\ stats'.sets >= stats.sets
     /\ stats'.deletes >= stats.deletes
     /\ last'.op \in {"clear", "stats", "cleanup"} => stats' = stats]_vars

\* A clear returned after a set and a hit had been counted.
C15_Witness ==
  /\ last.op = "clear" /\ last.ret = "void"
  /\ stats.sets > 0 /\ stats.hits > 0

\* C18: an error that escapes set, delete or clear is a CacheError with
\* code CACHE_ERROR; an error that escapes GitHubService.getIssue is a
\* GitHubAPIError with code GITHUB_API_ERROR whose status is the upstream
\* status (404, 403 and 401 included), or 500 when the upstream error has
\* none; the two codes differ.
C18_ErrorTypes ==
  /\ (last.op \in {"set", "delete", "clear"} /\ last.ret # "void")
     => (last.ret = "CacheError" /\ last.code = "CACHE_ERROR")
  /\ (last.op = "fetch" /\ last.ret # "value")
     => /\ last.ret = "GitHubAPIError" /\ last.code = "GITHUB_API_ERROR"
        /\ last.status = IF last.cause = 0 THEN 500 ELSE last.cause
  /\ ErrorCode("CacheError") # ErrorCode("GitHubAPIError")

\* A fetch failed with an upstream 404 and threw a GitHubAPIError.
C18_Witness ==
  /\ last.op = "fetch" /\ last.ret = "GitHubAPIError"
  /\ last.cause = 404 /\ last.status = 404

\* ---------------------------------------------------------------------
\* The callers of the cache: the /send command (send.execute) and the
\* message handler (MessageHandler.processIssuePattern, getIssueInfo).
\* A request advances from await to await; each service call is one step.

Requests == {1, 2}

Kinds == {"send", "message"}

\* A request slot before any command or message.
IdleFlow ==
  [pc |-> "idle", kind |-> "send", n |-> 0, issue |-> NoIssue,
   got |-> "none", fetched |-> "none", fetchedRec |-> NoIssue,
   stored |-> "none", storedRec |-> NoIssue, error |-> "none", status |-> 0,
   sent |-> FALSE, reply |-> "none"]

FlowInit ==
  /\ now = 1
  /\ mem = EmptyMem
  /\ db = {}
  /\ dbUp = TRUE
  /\ stats = ZeroStats
  /\ tasks = [t \in Tasks |-> IdleTask]
  /\ last = NoCall
  /\ calls = 0
  /\ proc = NoProc
  /\ made = NoMade
  /\ guar = [k \in Keys |-> NoGuar]
  /\ flow = [r \in Requests |-> IdleFlow]
  /\ dbm = NoDbm

\* The key of request r: CACHE_KEYS.GITHUB_ISSUE(owner, repo, issueNumber).
FlowKey(r) == GITHUB_ISSUE("octo", "repo", flow[r].n)

\* The interaction or the message arrives.  valid: the /send arguments
\* pass the checks (issue number, channel, repository); otherwise the
\* command answers with an error and returns.
FlowStart(r, kind, n, valid) ==
  /\ calls < MaxCalls
  /\ flow[r].pc \in {"idle", "done"}
  /\ kind = "message" => valid
  /\ calls' = calls + 1
  /\ flow' = [flow EXCEPT ![r] =
       IF valid
         THEN [IdleFlow EXCEPT !.pc = "get", !.kind = kind, !.n = n]
         ELSE [IdleFlow EXCEPT !.pc = "done", !.kind = kind, !.n = n,
                               !.reply = "error"]]
  /\ UNCHANGED <<made, proc, dbm, now, mem, db, dbUp, stats, tasks, last, guar>>

\* A caller that queries the remote API whatever the cache returned.
AfterGetAlwaysFetch(ret) == "fetch"

\* if (!issue) { fetch } : where the caller goes after getIssue.
AfterGet(ret) == IF ret = "value" THEN "send" ELSE "fetch"

\* await cacheService.getIssue(owner, repo, issueNumber)
FlowGetIssue(r) ==
  /\ flow[r].pc = "get"
  /\ LET out == GetWhole(FlowKey(r)) IN
     /\ mem' = out.mem
     /\ stats' = out.stats
     /\ flow' = [flow EXCEPT ![r].pc = AfterGet(out.ret),
                             ![r].issue = out.val,
                             ![r].got = IF out.ret = "value" THEN "hit"
                                        ELSE "absent"]
  /\ made' = [made EXCEPT !.gets = @ + 1]
  /\ UNCHANGED <<proc, dbm, now, db, dbUp, tasks, last, calls, guar>>

\* await githubService.getIssue(owner, repo, issueNumber); a rejection
\* goes to the caller's catch.
FlowFetch(r, failed, err) ==
  /\ flow[r].pc = "fetch"
  /\ flow' = [flow EXCEPT ![r] =
       IF failed
         THEN [@ EXCEPT !.pc = "catch", !.fetched = "fail",
                        !.error = "GitHubAPIError",
                        !.status = GetIssueCatch(err)]
         ELSE LET issue == MkIssue(@.n, @.n, "Bug", Null, "false", <<>>, 0,
                                   OctoRepo) IN
              [@ EXCEPT !.pc = "set", !.fetched = "ok", !.issue = issue,
                        !.fetchedRec = issue]]
  /\ UNCHANGED <<made, proc, dbm, now, mem, db, dbUp, stats, tasks, last, calls, guar>>

\* await cacheService.setIssue(owner, repo, issueNumber, issue), inside
\* the caller's try; memFault: set throws a CacheError.
FlowSetIssue(r, memFault) ==
  /\ flow[r].pc = "set"
  /\ IF memFault
       THEN /\ flow' = [flow EXCEPT ![r].pc = "catch", ![r].stored = "threw",
                                    ![r].storedRec = flow[r].issue,
                                    ![r].error = "CacheError"]
            /\ UNCHANGED <<mem, db, stats>>
       ELSE /\ mem' = MemSet(mem, FlowKey(r), flow[r].issue, DefaultTTL, now,
                             [key |-> FlowKey(r), rec |-> flow[r].issue],
                             "set")
            /\ db' = SaveToDatabase(FlowKey(r), flow[r].issue, DefaultTTL)
            /\ stats' = CountSet(stats)
            /\ flow' = [flow EXCEPT ![r].pc = "send", ![r].stored = "ok",
                                    ![r].storedRec = flow[r].issue]
  /\ made' = IF memFault THEN made ELSE [made EXCEPT !.sets = @ + 1]
  /\ UNCHANGED <<proc, dbm, now, dbUp, tasks, last, calls, guar>>

\* notifier.sendIssueToChannel (the command) or sendIssueEmbed (the
\* handler); failed: Discord rejects the message.
FlowSend(r, failed) ==
  /\ flow[r].pc = "send"
  /\ flow' = [flow EXCEPT ![r] =
       IF failed
         THEN [@ EXCEPT !.pc = "catch", !.error = "Error"]
         ELSE [@ EXCEPT !.sent = TRUE,
                        !.pc = IF flow[r].kind = "send" THEN "reply"
                               ELSE "done"]]
  /\ UNCHANGED <<made, proc, dbm, now, mem, db, dbUp, stats, tasks, last, calls, guar>>

\* The command's success reply.
FlowReply(r) ==
  /\ flow[r].pc = "reply"
  /\ flow' = [flow EXCEPT ![r].pc = "done", ![r].reply = "success"]
  /\ UNCHANGED <<made, proc, dbm, now, mem, db, dbUp, stats, tasks, last, calls, guar>>

\* The caller's catch: an error message is the reply.
FlowCatch(r) ==
  /\ flow[r].pc = "catch"
  /\ flow' = [flow EXCEPT ![r].pc = "done", ![r].reply = "error"]
  /\ UNCHANGED <<made, proc, dbm, now, mem, db, dbUp, stats, tasks, last, calls, guar>>

\* The upstream errors the requests meet: one without a status, and a 404.
FlowErrors == {0, 404}

FlowNext ==
  \/ \E r \in Requests, kind \in Kinds, n \in SeqNumbers, valid \in BOOLEAN :
       FlowStart(r, kind, n, valid)
  \/ \E r \in Requests : FlowGetIssue(r)
  \/ \E r \in Requests, failed \in BOOLEAN, err \in FlowErrors :
       FlowFetch(r, failed, err)
  \/ \E r \in Requests, memFault \in BOOLEAN : FlowSetIssue(r, memFault)
  \/ \E r \in Requests, failed \in BOOLEAN : FlowSend(r, failed)
  \/ \E r \in Requests : FlowReply(r)
  \/ \E r \in Requests : FlowCatch(r)
  \/ Tick
  \/ Sweep

FlowSpec == FlowInit /\ [][FlowNext]_vars

\* C16: in the command and in the handler, the remote API is queried only
\* after getIssue returned absent, setIssue is called only after the fetch
\* succeeded and with the fetched record, a hit leads to no fetch and no
\* setIssue, and a failed fetch is followed by no setIssue.
C16_CacheFirst ==
  \A r \in Requests :
    /\ flow[r].fetched # "none" => flow[r].got = "absent"
    /\ flow[r].stored # "none"
         => (flow[r].fetched = "ok" /\ flow[r].storedRec = flow[r].fetchedRec)
    /\ flow[r].got = "hit"
         => (flow[r].fetched = "none" /\ flow[r].stored = "none")
    /\ flow[r].fetched = "fail" => flow[r].stored = "none"

\* One request missed, fetched and stored; another one hit the cache and
\* sent the issue without a fetch.
C16_Witness ==
  \E r, q \in Requests :
    /\ flow[r].got = "absent" /\ flow[r].fetched = "ok"
    /\ flow[r].stored = "ok" /\ flow[r].pc = "done"
    /\ flow[q].got = "hit" /\ flow[q].sent /\ flow[q].kind = "message"

\* C17: a /send whose setIssue threw after a successful fetch has, once
\* finished, sent the issue and answered with the success reply.
C17_CacheWriteFailureIsNotFatal ==
  \A r \in Requests :
    (flow[r].kind = "send" /\ flow[r].pc = "done" /\ flow[r].fetched = "ok"
     /\ flow[r].stored = "threw")
    => (flow[r].sent /\ flow[r].reply = "success")

\* ---------------------------------------------------------------------
\* DatabaseManager: the lazily initialised handle behind getDatabase().

Callers == {1, 2, 3}

Paths == {":memory:", "file"}

\* A caller of the manager before its call; op: the method it calls.
IdleCaller ==
  [pc |-> "idle", op |-> "none", ret |-> "none", handle |-> 0,
   schema |-> FALSE]

\* The store a handle opened on path belongs to: every open of ":memory:"
\* creates a store of its own, every open of the file shares store 0.
StoreOf(path, h) == IF path = ":memory:" THEN h ELSE 0

\* this.db = null after construction (0); no handle opened; applied: the
\* stores on which schema.sql has been executed (the file of a previous
\* run may have it); schemaRuns: the executions of schema.sql by this
\* manager.
DbmInit ==
  /\ now = 1
  /\ mem = EmptyMem
  /\ db = {}
  /\ dbUp = TRUE
  /\ stats = ZeroStats
  /\ tasks = [t \in Tasks |-> IdleTask]
  /\ last = NoCall
  /\ calls = 0
  /\ proc = NoProc
  /\ made = NoMade
  /\ guar = [k \in Keys |-> NoGuar]
  /\ flow = NoFlow
  /\ \E path \in Paths, applied \in {{}, {0}} :
       /\ path = ":memory:" => applied = {}
       /\ dbm = [path |-> path, db |-> 0, opened |-> 0, applied |-> applied,
                 schemaRuns |-> 0,
                 callers |-> [c \in Callers |-> IdleCaller]]

\* if (!this.db) await this.initialize();
DbmReady(d) == d.db # 0

\* The call of caller c completes normally.  getDatabase: return
\* this.db!, the current handle; schema records whether its store has the
\* schema at that moment.  initialize: resolves.  CacheService's
\* cleanupExpired: runs its DELETE on the handle and returns.
DbmReturned(d, c) ==
  [d EXCEPT !.callers[c] =
     IF @.op = "getDatabase"
       THEN [pc |-> "done", op |-> @.op, ret |-> "handle", handle |-> d.db,
             schema |-> StoreOf(d.path, d.db) \in d.applied]
       ELSE [IdleCaller EXCEPT !.pc = "done", !.op = d.callers[c].op,
                               !.ret = "void"]]

\* initialize() rejected with a DatabaseError, and so do initialize() and
\* getDatabase(); CacheService's cleanupExpired catches and logs it.
DbmThrew(d, c) ==
  [d EXCEPT !.callers[c] =
     [IdleCaller EXCEPT !.pc = "done", !.op = d.callers[c].op,
                        !.ret = IF d.callers[c].op = "cleanupExpired"
                                  THEN "void" ELSE "DatabaseError"]]

\* getDatabase() is invoked: returns at once when this.db is set,
\* otherwise starts initialize() up to its await open(...).
DbmGetDatabase(c) ==
  /\ dbm.callers[c].pc = "idle"
  /\ LET d == [dbm EXCEPT !.callers[c].op = "getDatabase"] IN
     dbm' = IF DbmReady(d) THEN DbmReturned(d, c)
            ELSE [d EXCEPT !.callers[c].pc = "open"]
  /\ UNCHANGED <<made, proc, flow, now, mem, db, dbUp, stats, tasks, last, calls, guar>>

\* initializeDatabase(): initialize() is invoked directly and runs up to
\* its await open(...), whatever this.db holds.
DbmInitialize(c) ==
  /\ dbm.callers[c].pc = "idle"
  /\ dbm' = [dbm EXCEPT !.callers[c].op = "initialize",
                        !.callers[c].pc = "open"]
  /\ UNCHANGED <<made, proc, flow, now, mem, db, dbUp, stats, tasks, last, calls, guar>>

\* CacheService.cleanupExpired(): awaits getDatabase(), runs the DELETE,
\* and catches every error.
DbmCleanupExpired(c) ==
  /\ dbm.callers[c].pc = "idle"
  /\ LET d == [dbm EXCEPT !.callers[c].op = "cleanupExpired"] IN
     dbm' = IF DbmReady(d) THEN DbmReturned(d, c)
            ELSE [d EXCEPT !.callers[c].pc = "open"]
  /\ UNCHANGED <<made, proc, flow, now, mem, db, dbUp, stats, tasks, last, calls, guar>>

\* DatabaseManager.cleanupExpiredCache(): throws when this.db is not set,
\* and rethrows a failure of the DELETE (failed), as a DatabaseError.
DbmCleanupExpiredCache(c, failed) ==
  /\ dbm.callers[c].pc = "idle"
  /\ dbm' = [dbm EXCEPT !.callers[c] =
       [IdleCaller EXCEPT !.pc = "done", !.op = "cleanupExpiredCache",
                          !.handle = dbm.db,
                          !.ret = IF ~DbmReady(dbm) \/ failed
                                    THEN "DatabaseError" ELSE "void"]]
  /\ UNCHANGED <<made, proc, flow, now, mem, db, dbUp, stats, tasks, last, calls, guar>>

\* this.db = await open(...): a new handle is assigned to this.db; then
\* initializeSchema() runs up to its await this.db!.exec(schema).
DbmOpen(c, failed) ==
  /\ dbm.callers[c].pc = "open"
  /\ dbm' = IF failed THEN DbmThrew(dbm, c)
            ELSE [dbm EXCEPT !.db = dbm.opened + 1,
                             !.opened = dbm.opened + 1,
                             !.callers[c].pc = "schema",
                             !.callers[c].handle = dbm.opened + 1]
  /\ UNCHANGED <<made, proc, flow, now, mem, db, dbUp, stats, tasks, last, calls, guar>>

\* this.db!.exec(schema) completes, or fails, on the handle this.db held
\* when the exec was issued: the caller's own, no await lies between.
DbmSchema(c, failed) ==
  /\ dbm.callers[c].pc = "schema"
  /\ dbm' = IF failed THEN DbmThrew(dbm, c)
            ELSE [dbm EXCEPT
                    !.applied =
                      @ \cup {StoreOf(dbm.path, dbm.callers[c].handle)},
                    !.schemaRuns = @ + 1,
                    !.callers[c].pc = "optimize"]
  /\ UNCHANGED <<made, proc, flow, now, mem, db, dbUp, stats, tasks, last, calls, guar>>

\* optimizeDatabase(): the PRAGMAs; then initialize() resolves and the
\* caller's method continues to its return.
DbmOptimize(c, failed) ==
  /\ dbm.callers[c].pc = "optimize"
  /\ dbm' = IF failed THEN DbmThrew(dbm, c) ELSE DbmReturned(dbm, c)
  /\ UNCHANGED <<made, proc, flow, now, mem, db, dbUp, stats, tasks, last, calls, guar>>

DbmNext ==
  \/ \E c \in Callers : DbmGetDatabase(c)
  \/ \E c \in Callers : DbmInitialize(c)
  \/ \E c \in Callers : DbmCleanupExpired(c)
  \/ \E c \in Callers, failed \in BOOLEAN : DbmCleanupExpiredCache(c, failed)
  \/ \E c \in Callers, failed \in BOOLEAN : DbmOpen(c, failed)
  \/ \E c \in Callers, failed \in BOOLEAN : DbmSchema(c, failed)
  \/ \E c \in Callers, failed \in BOOLEAN : DbmOptimize(c, failed)

DbmSpec == DbmInit /\ [][DbmNext]_vars

\* C19: every handle getDatabase() has returned belonged, when returned,
\* to a store on which the schema had been applied.
C19_HandleHasSchema ==
  \A c \in Callers :
    dbm.callers[c].ret = "handle" => dbm.callers[c].schema

\* C20: a get(k) of a key whose fast-cache entry has expired returns null,
\* whether it runs before the sweep (the expired entry is still held) or
\* right after the sweep that deleted the entry.
C20_GetRacingSweepIsAbsent ==
  [][(/\ last'.op = "get"
      /\ \/ last'.key \in DOMAIN mem /\ ~MemLive(mem[last'.key], now)
         \/ last.op = "sweep" /\ last'.key \in last.swept)
     => last'.ret = "null"]_vars

\* C21: a get(k) served from the table leaves a fast-cache entry of k that
\* expires DefaultTTL after the promotion, whatever the row's expires_at,
\* and leaves the table as it was.
C21_PromotionUsesDefaultTTL ==
  [][(last'.op = "get" /\ last'.served = "db")
     => /\ last'.key \in DOMAIN mem'
        /\ mem'[last'.key].via = "promo"
        /\ mem'[last'.key].t = now + DefaultTTL
        /\ db' = db]_vars

\* A get was served from a row whose expires_at is not the expiry of the
\* promoted entry.
C21_Witness ==
  /\ last.op = "get" /\ last.served = "db" /\ last.key \in DOMAIN mem
  /\ mem[last.key].via = "promo"
  /\ \E r \in RowsOf(last.key) : ExpiresAt(r) # mem[last.key].t

\* C22: after a set(k, v, ttl) that wrote both tiers, the fast-cache entry
\* of k expires, and the row written has its expires_at, ttl after the
\* write, where ttl is the argument when one was supplied and DefaultTTL
\* when it was omitted.
C22_OneEffectiveTTL ==
  (last.op = "set" /\ last.ret = "void" /\ ~last.dbFailed)
  => LET eff == IF last.supplied THEN last.ttl ELSE DefaultTTL IN
     /\ last.key \in DOMAIN mem
     /\ mem[last.key].t = now + eff
     /\ \E r \in db : r.src.key = last.key /\ ExpiresAt(r) = now + eff

\* C23: a purge of expired rows deletes only rows that no SELECT of a get
\* would return and whose expires_at has passed, changes the result of no
\* get, and a second purge right after it (by cleanupExpired or, when the
\* purge reached the store, by the insert trigger) deletes nothing more.
C23_PurgeDeletesOnlyDeadRows ==
  [][last'.op = "cleanup"
     => /\ db' \subseteq db
        /\ \A r \in db \ db' : ~SqlLive(r, now) /\ ~(now < ExpiresAt(r))
        /\ \A k \in SeqKeys : GetWhole(k)' = GetWhole(k)
        /\ CleanupExpired' = db'
        /\ ~last'.dbFailed => CleanupTrigger(db', now) = db']_vars

\* A purge deleted a row while another row stayed.
C23_Witness ==
  last.op = "cleanup" /\ last.size > 0 /\ db # {}

\* C24: a purge of expired rows returns normally whenever it is called:
\* CacheService.cleanupExpired and DatabaseManager.cleanupExpiredCache
\* never end with an error, on a store that is open, not yet opened, or
\* failing.
C24_PurgeNeverRaises ==
  \A c \in Callers :
    (dbm.callers[c].pc = "done"
     /\ dbm.callers[c].op \in {"cleanupExpired", "cleanupExpiredCache"})
    => dbm.callers[c].ret = "void"

\* C29: however the getDatabase() and initialize() calls overlap, the
\* manager opens at most one connection and executes schema.sql at most
\* once.
C29_OpenedAtMostOnce ==
  dbm.opened <= 1 /\ dbm.schemaRuns <= 1

\* ---------------------------------------------------------------------
\* The module-level singletons: cacheService (services/cache) and
\* dbManager (database/index).

\* The values process.env.CACHE_TTL takes over the life of the process.
ConfigTTLs == {1, 2, 3}

MaxCloses == 2

\* What a caller last obtained from each accessor: the instance, and for
\* the manager the number of completed closeDatabase() calls at that time.
NoGot == [cache |-> 0, manager |-> 0, epoch |-> 0]

\* cacheService = null and dbManager = null at module load.
ProcInit ==
  /\ now = 1
  /\ mem = EmptyMem
  /\ db = {}
  /\ dbUp = TRUE
  /\ stats = ZeroStats
  /\ tasks = [t \in Tasks |-> IdleTask]
  /\ last = NoCall
  /\ calls = 0
  /\ made = NoMade
  /\ guar = [k \in Keys |-> NoGuar]
  /\ flow = NoFlow
  /\ dbm = NoDbm
  /\ \E ttl \in ConfigTTLs :
       proc = [env |-> ttl, cacheService |-> 0, built |-> 0, defaultTTL |-> 0,
               envReads |-> 0, envAtBuild |-> 0,
               dbManager |-> 0, managers |-> 0, closing |-> FALSE,
               closes |-> 0, got |-> [c \in Callers |-> NoGot]]

\* An accessor that builds a new instance on every call.
ProcHasCacheNever(p) == FALSE

\* if (!cacheService)
ProcHasCache(p) == p.cacheService # 0

\* getCacheService(): builds the CacheService on the first call, with the
\* TTL parsed from process.env.CACHE_TTL, and returns the instance.
ProcGetCacheService(c) ==
  /\ LET p == IF ProcHasCache(proc) THEN proc
              ELSE [proc EXCEPT !.cacheService = proc.built + 1,
                                !.built = proc.built + 1,
                                !.defaultTTL = proc.env,
                                !.envReads = proc.envReads + 1,
                                !.envAtBuild = proc.env]
     IN /\ p.built <= Cardinality(Callers)
        /\ proc' = [p EXCEPT !.got[c].cache = p.cacheService]
  /\ proc'.got[c] # proc.got[c]
  /\ UNCHANGED <<made, flow, dbm, now, mem, db, dbUp, stats, tasks, last,
               calls,
                 guar>>

\* The environment variable changes while the process runs.
ProcSetEnv(ttl) ==
  /\ proc.env # ttl
  /\ proc' = [proc EXCEPT !.env = ttl]
  /\ UNCHANGED <<made, flow, dbm, now, mem, db, dbUp, stats, tasks, last,
               calls,
                 guar>>

\* getDatabaseManager(): builds the DatabaseManager when dbManager is
\* null, and returns it.
ProcGetDatabaseManager(c) ==
  /\ LET p == IF proc.dbManager # 0 THEN proc
              ELSE [proc EXCEPT !.dbManager = proc.managers + 1,
                                !.managers = proc.managers + 1]
     IN proc' = [p EXCEPT !.got[c].manager = p.dbManager,
                          !.got[c].epoch = p.closes]
  /\ proc'.got[c] # proc.got[c] \/ proc'.managers # proc.managers
  /\ UNCHANGED <<made, flow, dbm, now, mem, db, dbUp, stats, tasks, last,
               calls,
                 guar>>

\* closeDatabase() is invoked: with a manager, it awaits its close().
ProcCloseBegin ==
  /\ proc.closes < MaxCloses
  /\ ~proc.closing
  /\ proc.dbManager # 0
  /\ proc' = [proc EXCEPT !.closing = TRUE]
  /\ UNCHANGED <<made, flow, dbm, now, mem, db, dbUp, stats, tasks, last,
               calls,
                 guar>>

\* close() has resolved: dbManager = null.
ProcCloseEnd ==
  /\ proc.closing
  /\ proc' = [proc EXCEPT !.closing = FALSE, !.dbManager = 0,
                          !.closes = proc.closes + 1]
  /\ UNCHANGED <<made, flow, dbm, now, mem, db, dbUp, stats, tasks, last,
               calls,
                 guar>>

ProcNext ==
  \/ \E c \in Callers : ProcGetCacheService(c)
  \/ \E ttl \in ConfigTTLs : ProcSetEnv(ttl)
  \/ \E c \in Callers : ProcGetDatabaseManager(c)
  \/ ProcCloseBegin
  \/ ProcCloseEnd

ProcSpec == ProcInit /\ [][ProcNext]_vars

\* C25: all getCacheService() calls of the process return one instance,
\* built once with the TTL the configuration held at that first call and
\* read then only; getDatabaseManager() calls that no completed
\* closeDatabase() separates return one DatabaseManager.
C25_Singletons ==
  /\ proc.built <= 1 /\ proc.envReads <= 1
  /\ proc.cacheService # 0 => proc.defaultTTL = proc.envAtBuild
  /\ \A c, d \in Callers :
       /\ (proc.got[c].cache # 0 /\ proc.got[d].cache # 0)
            => proc.got[c].cache = proc.got[d].cache
       /\ (proc.got[c].manager # 0 /\ proc.got[d].manager # 0
           /\ proc.got[c].epoch = proc.got[d].epoch)
            => proc.got[c].manager = proc.got[d].manager

\* Two callers hold the CacheService, the configuration has changed since
\* it was built, and two callers hold the same DatabaseManager.
C25_Witness ==
  \E c, d \in Callers :
    /\ c # d
    /\ proc.got[c].cache # 0 /\ proc.got[d].cache # 0
    /\ proc.env # proc.defaultTTL
    /\ proc.got[c].manager # 0 /\ proc.got[d].manager # 0
    /\ proc.got[c].epoch = proc.got[d].epoch

\* C26: the object getStats() returns holds the current values of the
\* four counters hits, misses, sets and deletes, together with size.
C26_StatsReturnsAllCounters ==
  last.op = "stats"
  => /\ {"hits", "misses", "sets", "deletes", "size"} \subseteq
          DOMAIN last.object
     /\ \A f \in {"hits", "misses", "sets", "deletes"} :
          last.object[f] = stats[f]

\* ---------------------------------------------------------------------
\* getIssue / setIssue over arbitrary (owner, repo, number) triples.

\* Owner and repository names, some of them containing ':' (two segments).
IssueOwners == {<<"a">>, <<"a", "b">>}
IssueRepos == {<<"b">>, <<"c">>, <<"b", "c">>}
IssueNumbers == {1, 2}

Triples == IssueOwners \X IssueRepos \X {1}

\* The records passed to setIssue; their number field need not be the
\* number argument.
IssueValues ==
  {MkIssue(n, n, "Bug", Null, "false", <<>>, 0, OctoRepo) :
     n \in IssueNumbers}

IssueInit ==
  /\ now = 1
  /\ mem = EmptyMem
  /\ db = {}
  /\ dbUp = TRUE
  /\ stats = ZeroStats
  /\ tasks = [t \in Tasks |-> IdleTask]
  /\ last = NoCall
  /\ calls = 0
  /\ guar = [k \in Keys |-> NoGuar]
  /\ flow = NoFlow
  /\ dbm = NoDbm
  /\ proc = NoProc
  /\ made = NoMade

\* setIssue(owner, repo, issueNumber, issue), from invocation to return:
\* set(key, issue) under the key of the triple.  The entry and the row
\* written carry the triple of the call (for the properties).
SetIssue(owner, repo, issueNumber, issue) ==
  /\ calls < MaxCalls
  /\ calls' = calls + 1
  /\ LET key == GITHUB_ISSUE(owner, repo, issueNumber)
         src == [key |-> key, rec |-> issue,
                 triple |-> <<owner, repo, issueNumber>>]
     IN /\ mem' = MemSet(mem, key, issue, DefaultTTL, now, src, "set")
        /\ db' = {IF r \in db THEN r ELSE Stamp(r, src) :
                    r \in SaveToDatabase(key, issue, DefaultTTL)}
        /\ stats' = CountSet(stats)
        /\ last' = [SeqReturned("set", key, SetOutcome(~dbUp)) EXCEPT
                      !.triple = <<owner, repo, issueNumber>>]
  /\ made' = [made EXCEPT !.sets = @ + 1]
  /\ UNCHANGED <<proc, flow, dbm, now, dbUp, tasks, guar>>

\* getIssue(owner, repo, issueNumber), from invocation to return:
\* get(key) under the key of the triple.
GetIssue(owner, repo, issueNumber) ==
  /\ calls < MaxCalls
  /\ calls' = calls + 1
  /\ LET key == GITHUB_ISSUE(owner, repo, issueNumber)
         out == GetWhole(key)
     IN /\ mem' = out.mem
        /\ stats' = out.stats
        /\ last' = [NoCall EXCEPT !.op = "get", !.key = key,
                      !.ret = out.ret, !.val = out.val, !.src = out.src,
                      !.served = out.served, !.via = out.via,
                      !.triple = <<owner, repo, issueNumber>>]
  /\ made' = [made EXCEPT !.gets = @ + 1]
  /\ UNCHANGED <<proc, flow, dbm, now, db, dbUp, tasks, guar>>

IssueNext ==
  \/ \E t \in Triples, issue \in IssueValues :
       SetIssue(t[1], t[2], t[3], issue)
  \/ \E t \in Triples : GetIssue(t[1], t[2], t[3])
  \/ Tick
  \/ Sweep

IssueSpec == IssueInit /\ [][IssueNext]_vars

\* C27: a record getIssue(owner, repo, number) returns was passed to a
\* setIssue with the same owner, repo and number.
C27_TriplesAreIsolated ==
  (last.op = "get" /\ last.ret = "value")
  => last.src.triple = last.triple

\* C28: when a get(k) that was in flight while a delete(k) or a clear()
\* was invoked has finished, every delete and clear has returned, and no
\* set(k) was invoked since the removal, the fast cache holds no entry for
\* k.
C28_InFlightGetDoesNotReinstate ==
  (/\ last.op = "get" /\ last.overlap
   /\ guar[last.key].st = "none"
   /\ \A u \in Tasks : tasks[u].op \notin {"delete", "clear"})
  => last.key \notin DOMAIN mem

\* ---------------------------------------------------------------------
\* Overlapping sets on an available store.
SetsNext ==
  \/ \E t \in Tasks, k \in Keys, ttl \in TTLArgs :
       \E v \in ValuesFor(k) : SetBegin(t, k, v, ttl)
  \/ \E t \in Tasks : SetDb(t)
  \/ \E t \in Tasks : SetEnd(t)
  \/ Tick
  \/ Sweep

SetsSpec == Init /\ [][SetsNext]_vars

\* The last of several overlapping sets of one key has returned.
OverlappingSetsDone ==
  /\ last.op = "set" /\ last.ret = "void" /\ last.peers # {}
  /\ \A u \in Tasks : tasks[u].pc = "idle"

\* C30 as claimed: once overlapping sets of one key have all returned, the
\* fast-cache entry and the row of the key hold the value of the same set.
C30_TiersAgreeAfterOverlappingSets ==
  (OverlappingSetsDone /\ last.key \in DOMAIN mem)
  => \A r \in RowsOf(last.key) : r.src.rec = mem[last.key].v

\* C30, amended: once overlapping sets of one key have all returned, each
\* tier holds the value of one of them, not necessarily of the same one:
\* the fast cache that of the set invoked last (while its ttl lasts), the
\* row that of one of the overlapping sets.
C30_EachTierHoldsOneOfTheSets ==
  OverlappingSetsDone
  => LET k == last.key
         values == last.peers \cup {last.val}
     IN /\ ~(guar[k].until < now)
             => (k \in DOMAIN mem /\ mem[k].v = guar[k].v)
        /\ guar[k].v \in values
        /\ RowsOf(k) # {}
        /\ \A r \in RowsOf(k) : r.src.rec \in values

\* Overlapping sets have returned and left different values in the tiers.
C30_Witness ==
  /\ OverlappingSetsDone
  /\ last.key \in DOMAIN mem
  /\ \E r \in RowsOf(last.key) : r.src.rec # mem[last.key].v

\* ---------------------------------------------------------------------
\* An interaction through the dispatcher (interactionCreate.execute) and
\* the /send command (send.execute).  Texts are sequences of characters.

\* The longest option text tried.
MaxInput == 3

Digits == {"0", "1", "2", "3", "4"}

\* The texts typed for the number option, and for the repo option (the
\* empty text: the option is omitted).
IssueInputs ==
  UNION {[1..m -> {"#", "0", "1", "a", "-"}] : m \in 0..MaxInput}
RepoInputs == UNION {[1..m -> {"o", "/"}] : m \in 0..MaxInput}

\* process.env.DEFAULT_REPOSITORY and TARGET_CHANNEL_ID (empty: unset).
EnvRepositories == {<<>>, <<"o">>}
ChannelIds == {<<>>, <<"c">>}

\* The value of the longest prefix of digits of a text, and whether there
\* is one.
RECURSIVE DigitsPrefix(_, _, _)
DigitsPrefix(text, acc, seen) ==
  LET value(c) == CASE c = "0" -> 0 [] c = "1" -> 1 [] c = "2" -> 2
                    [] c = "3" -> 3 [] c = "4" -> 4
  IN IF Len(text) = 0 \/ text[1] \notin Digits
       THEN [nan |-> ~seen, n |-> acc]
       ELSE DigitsPrefix(Tail(text), 10 * acc + value(text[1]), TRUE)

\* parseInt(text, 10): an optional sign, then the longest run of digits;
\* NaN when there is no digit.
ParseIntText(text) ==
  IF Len(text) > 0 /\ text[1] = "-"
    THEN LET p == DigitsPrefix(Tail(text), 0, FALSE) IN
         [nan |-> p.nan, n |-> 0 - p.n]
    ELSE DigitsPrefix(text, 0, FALSE)

\* text.split('/'): the parts between the separators.
RECURSIVE Split(_, _)
Split(text, part) ==
  IF Len(text) = 0 THEN <<part>>
  ELSE IF text[1] = "/" THEN <<part>> \o Split(Tail(text), <<>>)
  ELSE Split(Tail(text), Append(part, text[1]))

\* A check that lets the number 0 through.
NumberOkFromZero(issueNumber) == ~(issueNumber.nan \/ issueNumber.n < 0)

\* !(isNaN(issueNumber) || issueNumber < 1)
NumberOk(issueNumber) == ~(issueNumber.nan \/ issueNumber.n < 1)

\* send.execute, from the options to the last check: whether the command
\* goes on, and with which issue number, owner and repo.  cleanInput is
\* issueInput.replace(/^#/, ''); a || b is the first text that is not
\* empty (or undefined); the destructuring binds the first two parts, the
\* empty text standing for undefined.
SendValidate(issueInput, repoOption, envRepository, targetChannelId) ==
  LET cleanInput == IF Len(issueInput) > 0 /\ issueInput[1] = "#"
                      THEN Tail(issueInput) ELSE issueInput
      issueNumber == ParseIntText(cleanInput)
      repository == IF repoOption # <<>> THEN repoOption
                    ELSE IF envRepository # <<>> THEN envRepository
                    ELSE <<"m", "/", "v">>
      parts == Split(repository, <<>>)
      owner == parts[1]
      repo == IF Len(parts) >= 2 THEN parts[2] ELSE <<>>
  IN [ok |-> NumberOk(issueNumber) /\ targetChannelId # <<>>
             /\ owner # <<>> /\ repo # <<>>,
      issueNumber |-> issueNumber, owner |-> owner, repo |-> repo]

InteractionTypes == {"command", "button", "select", "other"}
CommandNames == {"send", "unknown"}

\* An interaction as it arrives: its options and the environment, the
\* flags discord.js keeps on it, the calls made on it (acts) and the
\* services reached with the checked arguments.
NewInteraction(type, name, issueInput, repoOption, envRepository, channel) ==
  [pc |-> "start", type |-> type, commandName |-> name,
   issueInput |-> issueInput, repoOption |-> repoOption,
   envRepository |-> envRepository, targetChannelId |-> channel,
   deferred |-> FALSE, replied |-> FALSE, acts |-> <<>>, reached |-> {},
   checked |-> SendValidate(<<>>, <<>>, <<>>, <<>>)]

InteractionInit ==
  /\ now = 1
  /\ mem = EmptyMem
  /\ db = {}
  /\ dbUp = TRUE
  /\ stats = ZeroStats
  /\ tasks = [t \in Tasks |-> IdleTask]
  /\ last = NoCall
  /\ calls = 0
  /\ proc = NoProc
  /\ made = NoMade
  /\ guar = [k \in Keys |-> NoGuar]
  /\ dbm = NoDbm
  /\ \/ \E issueInput \in IssueInputs, repoOption \in RepoInputs,
          envRepository \in EnvRepositories, channel \in ChannelIds :
          flow = NewInteraction("command", "send", issueInput, repoOption,
                                envRepository, channel)
     \/ flow = NewInteraction("command", "unknown", <<>>, <<>>, <<>>, <<>>)
     \/ \E type \in InteractionTypes \ {"command"} :
          flow = NewInteraction(type, "none", <<>>, <<>>, <<>>, <<>>)

\* A call of deferReply, reply, editReply or followUp on the interaction,
\* made by the command or by the dispatcher.  discord.js rejects reply and
\* deferReply on an interaction already deferred or replied to, and
\* editReply and followUp on one that is neither; failed: the request to
\* Discord is rejected.  A reply that succeeds sets replied, a deferReply
\* deferred.
Accepted(ix, call, failed) ==
  /\ ~failed
  /\ IF call \in {"reply", "deferReply"}
       THEN ~(ix.deferred \/ ix.replied)
       ELSE ix.deferred \/ ix.replied

Respond(ix, call, content, by, failed) ==
  [ix EXCEPT
     !.acts = Append(@, [call |-> call, content |-> content, by |-> by,
                         after |-> ix.deferred \/ ix.replied,
                         ok |-> Accepted(ix, call, failed)]),
     !.deferred = @ \/ (call = "deferReply" /\ Accepted(ix, call, failed)),
     !.replied = @ \/ (call = "reply" /\ Accepted(ix, call, failed))]

\* A service is called with the checked arguments.
Reach(ix, service) ==
  [ix EXCEPT !.reached = @ \cup
     {[service |-> service, issueNumber |-> ix.checked.issueNumber,
       owner |-> ix.checked.owner, repo |-> ix.checked.repo,
       channel |-> ix.targetChannelId]}]

\* interactionCreate.execute up to the command's execute or the reply to a
\* button or a select menu; an unknown command is logged and dropped.
Dispatch ==
  /\ flow.pc = "start"
  /\ flow' = [flow EXCEPT !.pc =
       CASE flow.type = "command" /\ flow.commandName = "send" -> "defer"
         [] flow.type \in {"button", "select"} -> "reply"
         [] OTHER -> "done"]
  /\ UNCHANGED <<made, proc, dbm, now, mem, db, dbUp, stats, tasks, last,
                 calls, guar>>

\* await interaction.reply(...) for a button or a select menu.
PlainReply(failed) ==
  /\ flow.pc = "reply"
  /\ LET ix == Respond(flow, "reply", "notice", "dispatcher", failed) IN
     flow' = [ix EXCEPT !.pc = IF Accepted(flow, "reply", failed)
                                 THEN "done" ELSE "outerCatch"]
  /\ UNCHANGED <<made, proc, dbm, now, mem, db, dbUp, stats, tasks, last,
                 calls, guar>>

\* await interaction.deferReply({ ephemeral: true })
DeferReply(failed) ==
  /\ flow.pc = "defer"
  /\ LET ix == Respond(flow, "deferReply", "none", "send", failed) IN
     flow' = [ix EXCEPT !.pc = IF Accepted(flow, "deferReply", failed)
                                 THEN "validate" ELSE "catch"]
  /\ UNCHANGED <<made, proc, dbm, now, mem, db, dbUp, stats, tasks, last,
                 calls, guar>>

\* The checks of the issue number, the channel and the repository.
Validate ==
  /\ flow.pc = "validate"
  /\ LET checked == SendValidate(flow.issueInput, flow.repoOption,
                                 flow.envRepository, flow.targetChannelId)
     IN flow' = [flow EXCEPT !.checked = checked,
                             !.pc = IF checked.ok THEN "getIssue"
                                                  ELSE "editInvalid"]
  /\ UNCHANGED <<made, proc, dbm, now, mem, db, dbUp, stats, tasks, last,
                 calls, guar>>

\* await interaction.editReply(<the error of the failed check>); return
EditInvalid(failed) ==
  /\ flow.pc = "editInvalid"
  /\ LET ix == Respond(flow, "editReply", "error", "send", failed) IN
     flow' = [ix EXCEPT !.pc = IF Accepted(flow, "editReply", failed)
                                 THEN "done" ELSE "catch"]
  /\ UNCHANGED <<made, proc, dbm, now, mem, db, dbUp, stats, tasks, last,
                 calls, guar>>

\* await cacheService.getIssue(owner, repo, issueNumber); hit: it
\* returned an issue.
SendGetIssue(hit) ==
  /\ flow.pc = "getIssue"
  /\ flow' = [Reach(flow, "cache") EXCEPT !.pc = AfterGet(IF hit THEN "value"
                                                                 ELSE "null")]
  /\ UNCHANGED <<made, proc, dbm, now, mem, db, dbUp, stats, tasks, last,
                 calls, guar>>

\* await githubService.getIssue(owner, repo, issueNumber)
SendFetch(failed) ==
  /\ flow.pc = "fetch"
  /\ flow' = [Reach(flow, "api") EXCEPT !.pc = IF failed THEN "catch"
                                                        ELSE "setIssue"]
  /\ UNCHANGED <<made, proc, dbm, now, mem, db, dbUp, stats, tasks, last,
                 calls, guar>>

\* await cacheService.setIssue(owner, repo, issueNumber, issue)
SendSetIssue(failed) ==
  /\ flow.pc = "setIssue"
  /\ flow' = [Reach(flow, "cache") EXCEPT !.pc = IF failed THEN "catch"
                                                          ELSE "send"]
  /\ UNCHANGED <<made, proc, dbm, now, mem, db, dbUp, stats, tasks, last,
                 calls, guar>>

\* await notifier.sendIssueToChannel(targetChannelId, issue)
SendToChannel(failed) ==
  /\ flow.pc = "send"
  /\ flow' = [Reach(flow, "channel") EXCEPT !.pc = IF failed THEN "catch"
                                                            ELSE "editDone"]
  /\ UNCHANGED <<made, proc, dbm, now, mem, db, dbUp, stats, tasks, last,
                 calls, guar>>

\* await interaction.editReply(<success>)
EditDone(failed) ==
  /\ flow.pc = "editDone"
  /\ LET ix == Respond(flow, "editReply", "success", "send", failed) IN
     flow' = [ix EXCEPT !.pc = IF Accepted(flow, "editReply", failed)
                                 THEN "done" ELSE "catch"]
  /\ UNCHANGED <<made, proc, dbm, now, mem, db, dbUp, stats, tasks, last,
                 calls, guar>>

\* The catch of send.execute: the message is chosen from error.status and
\* error.message and sent with editReply, whose own failure is logged.
\* messageless: the value caught has no message text, so that
\* error.message.includes throws out of the command.
SendCatch(messageless, failed) ==
  /\ flow.pc = "catch"
  /\ flow' = IF messageless
       THEN [flow EXCEPT !.pc = "innerCatch"]
       ELSE [Respond(flow, "editReply", "error", "send", failed)
               EXCEPT !.pc = "done"]
  /\ UNCHANGED <<made, proc, dbm, now, mem, db, dbUp, stats, tasks, last,
                 calls, guar>>

\* An error path that replies whatever the state of the interaction.
ErrorCallAlwaysReply(ix) == "reply"

\* if (interaction.replied || interaction.deferred) followUp else reply
ErrorCall(ix) == IF ix.replied \/ ix.deferred THEN "followUp" ELSE "reply"

\* The dispatcher's catch around command.execute.
InnerCatch(failed) ==
  /\ flow.pc = "innerCatch"
  /\ LET ix == Respond(flow, ErrorCall(flow), "error", "dispatcher", failed)
     IN flow' = [ix EXCEPT !.pc = IF Accepted(flow, ErrorCall(flow), failed)
                                    THEN "done" ELSE "outerCatch"]
  /\ UNCHANGED <<made, proc, dbm, now, mem, db, dbUp, stats, tasks, last,
                 calls, guar>>

\* The dispatcher's outer catch; a failure of its own reply is logged.
OuterCatch(failed) ==
  /\ flow.pc = "outerCatch"
  /\ flow' = [Respond(flow, ErrorCall(flow), "error", "dispatcher", failed)
                EXCEPT !.pc = "done"]
  /\ UNCHANGED <<made, proc, dbm, now, mem, db, dbUp, stats, tasks, last,
                 calls, guar>>

InteractionNext ==
  \/ Dispatch
  \/ \E failed \in BOOLEAN : PlainReply(failed)
  \/ \E failed \in BOOLEAN : DeferReply(failed)
  \/ Validate
  \/ \E failed \in BOOLEAN : EditInvalid(failed)
  \/ \E hit \in BOOLEAN : SendGetIssue(hit)
  \/ \E failed \in BOOLEAN : SendFetch(failed)
  \/ \E failed \in BOOLEAN : SendSetIssue(failed)
  \/ \E failed \in BOOLEAN : SendToChannel(failed)
  \/ \E failed \in BOOLEAN : EditDone(failed)
  \/ \E messageless, failed \in BOOLEAN : SendCatch(messageless, failed)
  \/ \E failed \in BOOLEAN : InnerCatch(failed)
  \/ \E failed \in BOOLEAN : OuterCatch(failed)

InteractionSpec == InteractionInit /\ [][InteractionNext]_vars

\* C33: /send calls the cache, the remote API and the target channel only
\* with an issue number that is an integer >= 1, a configured channel id
\* and a non-empty owner and repo; and a command whose input fails one of
\* the checks ends having edited the deferred reply with an error message
\* and having made none of those calls.
C33_SendValidatesFirst ==
  /\ \A x \in flow.reached :
       /\ ~x.issueNumber.nan
       /\ x.issueNumber.n \in Nat /\ x.issueNumber.n >= 1
       /\ x.channel # <<>>
       /\ x.owner # <<>> /\ x.repo # <<>>
  /\ (/\ flow.pc = "done" /\ flow.commandName = "send" /\ flow.deferred
      /\ ~SendValidate(flow.issueInput, flow.repoOption, flow.envRepository,
                       flow.targetChannelId).ok)
     => /\ flow.reached = {}
        /\ \E i \in DOMAIN flow.acts :
             /\ flow.acts[i].call = "editReply"
             /\ flow.acts[i].content = "error"

\* A /send of #10 for a repository given as owner/repo reached the target
\* channel with the number 10.
C33_Witness ==
  /\ flow.pc = "done" /\ flow.commandName = "send"
  /\ flow.issueInput = <<"#", "1", "0">>
  /\ \E x \in flow.reached :
       /\ x.service = "channel" /\ x.issueNumber.n = 10
       /\ x.owner = <<"o">> /\ x.repo = <<"o">>

\* C34: reply() is never called on an interaction that is deferred or
\* replied to: /send defers first and then only edits the deferred reply,
\* the dispatcher's error paths use followUp on such an interaction and
\* reply only otherwise, and an unknown command gets no reply at all.
C34_NoReplyAfterDeferOrReply ==
  /\ \A i \in DOMAIN flow.acts :
       LET act == flow.acts[i] IN
       /\ act.call = "reply" => ~act.after
       /\ act.by = "dispatcher" /\ flow.type = "command"
            => act.call = (IF act.after THEN "followUp" ELSE "reply")
       /\ act.by = "send"
            => act.call = (IF i = 1 THEN "deferReply" ELSE "editReply")
  /\ (flow.type = "command" /\ flow.commandName = "unknown")
       => flow.acts = <<>>

\* The dispatcher answered a failed /send with followUp on the deferred
\* interaction.
C34_Witness ==
  /\ flow.pc = "done" /\ flow.deferred
  /\ \E i \in DOMAIN flow.acts :
       /\ flow.acts[i].call = "followUp" /\ flow.acts[i].by = "dispatcher"
       /\ flow.acts[i].ok

\* ---------------------------------------------------------------------
\* The message handler: MessageHandler.handleMessage, detectIssuePatterns
\* and the loop over processIssuePattern.  A message is a sequence of
\* lines; the lines tried hold no URL and no backtick, so the three masks
\* applied before the quote filter leave them as they are.

\* The lines of a message, and the messages handled over one run.
MaxLines == 4
MaxMessages == 2

\* BOT_LIMITS.MAX_ISSUES_PER_MESSAGE
MAX_ISSUES_PER_MESSAGE == 3

LineTexts ==
  {<<"#", "1", " ">>, <<"#", "2", " ">>, <<"#", "3", " ">>,
   <<"g", "i", "t", "#", "4", " ">>,
   <<">", " ", "#", "1", " ">>, <<">", " ", "#", "2", " ">>,
   <<"#", "1">>}

Messages == UNION {[1..m -> LineTexts] : m \in 1..MaxLines}

\* \s
IsSpace(c) == c \in {" ", "\n"}

\* lines.join('\n'), and for each character the line it came from.
RECURSIVE Join(_)
Join(lines) ==
  IF Len(lines) = 0 THEN <<>>
  ELSE IF Len(lines) = 1 THEN lines[1]
  ELSE lines[1] \o <<"\n">> \o Join(Tail(lines))

RECURSIVE LineOf(_, _)
LineOf(lines, index) ==
  IF index <= Len(lines[1]) + 1 THEN 1
  ELSE 1 + LineOf(Tail(lines), index - Len(lines[1]) - 1)

\* ISSUE_PATTERNS.EXCLUDE_QUOTES.test(line) on the shared pattern /^>\s/gm:
\* the search starts at the 0-based lastIndex; a match leaves lastIndex
\* after it, a failure resets it to 0.
QuoteTest(line, lastIndex) ==
  LET test(found) ==
        IF found = {}
          THEN [matched |-> FALSE, lastIndex |-> 0]
          ELSE [matched |-> TRUE,
                lastIndex |-> 2 + CHOOSE q \in found : \A z \in found : q <= z]
  IN test({q \in lastIndex..(Len(line) - 2) :
             /\ q = 0 \/ line[q] = "\n"
             /\ line[q + 1] = ">"
             /\ IsSpace(line[q + 2])})

\* lines.filter((line) => !EXCLUDE_QUOTES.test(line)): the lines kept,
\* each with its place in the message, and the lastIndex left behind.
RECURSIVE FilterQuotes(_, _, _)
FilterQuotes(lines, place, lastIndex) ==
  IF Len(lines) = 0 THEN [kept |-> <<>>, lastIndex |-> lastIndex]
  ELSE LET keep(t, rest) ==
             [kept |-> IF t.matched THEN rest.kept
                       ELSE <<[text |-> lines[1], place |-> place]>>
                              \o rest.kept,
              lastIndex |-> rest.lastIndex]
           filter(t) ==
             keep(t, FilterQuotes(Tail(lines), place + 1, t.lastIndex))
       IN filter(QuoteTest(lines[1], lastIndex))

\* /(?:^|\s)<word>(\d{1,5})(?:\s|$)/ tried at position i of a text: no
\* match, or the position of the word, the digits and where the match
\* ends.  stands(k): the word stands at position k; d: the digits that
\* follow it.
MatchAt(text, i, word) ==
  LET stands(k) == /\ k + Len(word) - 1 <= Len(text)
                   /\ \A j \in 1..Len(word) : text[k + j - 1] = word[j]
      run(w, k) == \A j \in 0..(k - 1) :
                     /\ w + Len(word) + j <= Len(text)
                     /\ text[w + Len(word) + j] \in Digits
      match(w, d, e) ==
        IF w = 0 \/ d < 1 \/ d > 5 THEN [found |-> FALSE]
        ELSE IF e > Len(text)
          THEN [found |-> TRUE, at |-> w,
                digits |-> SubSeq(text, e - d, e - 1), end |-> e - 1]
        ELSE IF IsSpace(text[e])
          THEN [found |-> TRUE, at |-> w,
                digits |-> SubSeq(text, e - d, e - 1), end |-> e]
        ELSE [found |-> FALSE]
      digits(w, d) == match(w, d, w + Len(word) + d)
      from(w) ==
        digits(w, IF w = 0 THEN 0
                  ELSE CHOOSE k \in 0..Len(text) : run(w, k) /\ ~run(w, k + 1))
  IN from(IF i = 1 /\ stands(1) THEN 1
          ELSE IF IsSpace(text[i]) /\ stands(i + 1) THEN i + 1
          ELSE 0)

\* text.matchAll(pattern) from position i on: the matches in text order,
\* each search starting where the match before ended.
RECURSIVE MatchAll(_, _, _)
MatchAll(text, i, word) ==
  IF i > Len(text) THEN <<>>
  ELSE LET next(m) ==
             IF m.found THEN <<m>> \o MatchAll(text, m.end + 1, word)
                        ELSE MatchAll(text, i + 1, word)
       IN next(MatchAt(text, i, word))

\* detectIssuePatterns(content) with the shared quote pattern at
\* lastIndex: the patterns reported (with, for the properties, the line
\* each one stands on) and the lastIndex left behind.  uniquePatterns
\* keeps the first pattern of each issue number.
DetectIssuePatterns(lines, lastIndex) ==
  LET inRange(ps) == SelectSeq(ps, LAMBDA x : x.issue_number >= 1
                                             /\ x.issue_number <= 99999)
      found(filtered, texts, ms) ==
        inRange([j \in 1..Len(ms) |->
                   [issue_number |-> ParseIntText(ms[j].digits).n,
                    line |-> lines[filtered.kept[LineOf(texts,
                                                        ms[j].at)].place]]])
      first(patterns, i) ==
        \A j \in 1..(i - 1) :
          patterns[j].issue_number # patterns[i].issue_number
      kept(marked) == [i \in 1..Len(marked) |-> marked[i].p]
      uniquePatterns(patterns) ==
        kept(SelectSeq([i \in 1..Len(patterns) |->
                          [p |-> patterns[i], first |-> first(patterns, i)]],
                       LAMBDA x : x.first))
      matches(filtered, texts, maskedContent) ==
        [patterns |->
           uniquePatterns(
             found(filtered, texts, MatchAll(maskedContent, 1, <<"#">>))
               \o found(filtered, texts,
                        MatchAll(maskedContent, 1, <<"g", "i", "t", "#">>))),
         lastIndex |-> filtered.lastIndex]
      masked(filtered, texts) == matches(filtered, texts, Join(texts))
      detect(filtered) ==
        masked(filtered,
               [j \in 1..Len(filtered.kept) |-> filtered.kept[j].text])
  IN detect(FilterQuotes(lines, 1, lastIndex))

\* A handler that processes every pattern of the message.
LimitedToAll(patterns) == patterns

\* issuePatterns.slice(0, BOT_LIMITS.MAX_ISSUES_PER_MESSAGE)
Limited(patterns) ==
  SubSeq(patterns, 1, IF Len(patterns) < MAX_ISSUES_PER_MESSAGE
                        THEN Len(patterns) ELSE MAX_ISSUES_PER_MESSAGE)

\* The handler between two messages; lastIndex is that of the shared
\* EXCLUDE_QUOTES pattern.
IdleHandler(lastIndex, messages) ==
  [pc |-> "idle", lastIndex |-> lastIndex, messages |-> messages,
   lines |-> <<>>, patterns |-> <<>>, limited |-> <<>>, processed |-> <<>>]

MessageInit ==
  /\ now = 1
  /\ mem = EmptyMem
  /\ db = {}
  /\ dbUp = TRUE
  /\ stats = ZeroStats
  /\ tasks = [t \in Tasks |-> IdleTask]
  /\ last = NoCall
  /\ calls = 0
  /\ proc = NoProc
  /\ made = NoMade
  /\ guar = [k \in Keys |-> NoGuar]
  /\ dbm = NoDbm
  /\ flow = IdleHandler(0, 0)

\* handleMessage(message) up to its first await: the detection, the
\* return when nothing was detected, and the slice.
HandleMessage(lines) ==
  /\ flow.pc = "idle"
  /\ flow.messages < MaxMessages
  /\ LET handle(out) ==
           flow' = [flow EXCEPT !.pc = IF out.patterns = <<>> THEN "done"
                                                              ELSE "loop",
                                !.lastIndex = out.lastIndex,
                                !.messages = @ + 1,
                                !.lines = lines,
                                !.patterns = out.patterns,
                                !.limited = Limited(out.patterns)]
     IN handle(DetectIssuePatterns(lines, flow.lastIndex))
  /\ UNCHANGED <<made, proc, dbm, now, mem, db, dbUp, stats, tasks, last,
                 calls, guar>>

\* await this.processIssuePattern(message, pattern) for the next pattern:
\* the issue is sent, or an error is caught inside processIssuePattern and
\* answered with message.reply (whose own failure is logged).
ProcessIssuePattern(outcome) ==
  /\ flow.pc = "loop"
  /\ LET i == Len(flow.processed) + 1 IN
     flow' = [flow EXCEPT
                !.processed = Append(@, [issue_number |->
                                           flow.limited[i].issue_number,
                                         outcome |-> outcome]),
                !.pc = IF i = Len(flow.limited) THEN "done" ELSE "loop"]
  /\ UNCHANGED <<made, proc, dbm, now, mem, db, dbUp, stats, tasks, last,
                 calls, guar>>

\* handleMessage returns; the handler waits for the next message.
HandleMessageEnd ==
  /\ flow.pc = "done"
  /\ flow' = IdleHandler(flow.lastIndex, flow.messages)
  /\ UNCHANGED <<made, proc, dbm, now, mem, db, dbUp, stats, tasks, last,
                 calls, guar>>

MessageNext ==
  \/ \E lines \in Messages : HandleMessage(lines)
  \/ \E outcome \in {"sent", "failed"} : ProcessIssuePattern(outcome)
  \/ HandleMessageEnd

MessageSpec == MessageInit /\ [][MessageNext]_vars

\* C36: handleMessage processes at most MAX_ISSUES_PER_MESSAGE (3) issue
\* references of a message, each issue number at most once, one after
\* another in detection order, and goes on to the following ones after a
\* failure: what has been processed is always the beginning of the
\* detected patterns, and all of the first three once the handler is done.
C36_AtMostThreeInOrder ==
  /\ Len(flow.processed) <= 3
  /\ Len(flow.processed) <= Len(flow.patterns)
  /\ \A i \in DOMAIN flow.processed :
       /\ flow.processed[i].issue_number = flow.patterns[i].issue_number
       /\ \A j \in DOMAIN flow.processed :
            i # j => flow.processed[i].issue_number
                       # flow.processed[j].issue_number
  /\ flow.pc = "done"
       => Len(flow.processed)
            = (IF Len(flow.patterns) < 3 THEN Len(flow.patterns) ELSE 3)

\* A message with four issue references: three were processed, the first
\* of them failed, the fourth was left out.
C36_Witness ==
  /\ flow.pc = "done"
  /\ Len(flow.patterns) = 4
  /\ Len(flow.processed) = 3
  /\ flow.processed[1].outcome = "failed"
  /\ flow.processed[3].outcome = "sent"

\* A line starting with "> ".
IsQuoted(line) == Len(line) >= 2 /\ line[1] = ">" /\ line[2] = " "

\* C37: detectIssuePatterns never reports an issue reference that stands
\* on a quoted line, whatever the message, however many quoted lines
\* follow one another and whatever calls came before.
C37_QuotedLinesAreSkipped ==
  \A i \in DOMAIN flow.patterns : ~IsQuoted(flow.patterns[i].line)

\* C31: a get(k) that starts after set(k, v) was invoked, while that set is
\* still suspended on its persistent write (and its ttl has not elapsed),
\* is answered with v by the fast cache, without a persistent read.
C31_GetSeesSuspendedSet ==
  [][\A k \in Keys :
       (guar[k].st = "pending" /\ now < guar[k].until /\ GetStarts(k)
        /\ ~last'.fault)
       => /\ last'.op = "get" /\ last'.ret = "value"
          /\ last'.val = guar[k].v
          /\ last'.served = "mem" /\ last'.dbOps = 0
          /\ tasks' = tasks]_vars

\* No get is in flight.
NoGetInFlight == \A u \in Tasks : tasks[u].op # "get"

\* The counters of a service instance against the calls made on it.
CountersMatchCalls ==
  /\ stats.sets = made.sets
  /\ stats.deletes = made.deletes
  /\ NoGetInFlight => stats.hits + stats.misses = made.gets

\* The counters move only in a step in which a call returns, and then one
\* of them by one (a new service instance starts from zero).
OneCounterPerCall ==
  \/ stats' = stats /\ last'.op \notin {"get", "set", "delete"}
  \/ stats' = stats /\ last'.op \in {"set", "delete"} /\ last'.ret # "void"
  \/ last'.op = "get" /\ last'.ret = "value"
       /\ stats' = [stats EXCEPT !.hits = @ + 1]
  \/ last'.op = "get" /\ last'.ret = "null"
       /\ stats' = [stats EXCEPT !.misses = @ + 1]
  \/ last'.op = "set" /\ last'.ret = "void"
       /\ stats' = [stats EXCEPT !.sets = @ + 1]
  \/ last'.op = "delete" /\ last'.ret = "void"
       /\ stats' = [stats EXCEPT !.deletes = @ + 1]
  \/ stats' = ZeroStats /\ made' = NoMade

\* C32: every completed get adds one to exactly one of hits and misses, so
\* hits + misses is the number of gets made whenever no get is in flight;
\* sets and deletes are the numbers of set and delete calls that returned
\* normally; and no other step changes the counters.
C32_CountersCountCalls ==
  []CountersMatchCalls /\ [][OneCounterPerCall]_vars

\* With no get in flight, a hit and a miss are counted for the two gets
\* made, and one set for the set that returned.
C32_Witness ==
  /\ NoGetInFlight
  /\ stats.hits = 1 /\ stats.misses = 1 /\ made.gets = 2
  /\ stats.sets = 1 /\ made.sets = 1

\* C35: overlapping requests for one (owner, repo, number) that all miss
\* the cache lead to at most one remote fetch: no two requests for the
\* same issue are waiting for the remote API at the same time (a request
\* is at "fetch" from the miss of its getIssue, which issues the remote
\* call, until the response).
C35_AtMostOneFetchPerIssue ==
  \A r1, r2 \in Requests :
    (/\ r1 # r2
     /\ flow[r1].pc = "fetch" /\ flow[r2].pc = "fetch"
     /\ flow[r1].got = "absent" /\ flow[r2].got = "absent")
    => flow[r1].n # flow[r2].n

====
